---- MODULE Spec2Model ----
(***************************************************************************)
(* clocked: the adaptive resampling stream pair of src/src/stream.rs.      *)
(*                                                                         *)
(* One SPSC ring (rtrb) joins a device callback and an application thread. *)
(* kind = "sink":   the callback is StreamSink::output_samples, which pops *)
(*                  from the ring; the application thread pushes.          *)
(* kind = "source": the callback is StreamSource::input_samples, which     *)
(*                  pushes into the ring; the application thread pops.     *)
(* The two structs have the same fields, so one set of variables carries   *)
(* whichever of them was constructed around the ring.                      *)
(*                                                                         *)
(* The callback runs as a sequence of atomic steps, one per access to the  *)
(* ring, so that the other thread can act between any two accesses.        *)
(*                                                                         *)
(* Numbers.  f32 samples are integers.  f64 quantities (ratio, time, avg,  *)
(* integral, factor) are fixed point with unit 1/Micro; divisions round    *)
(* down.  PID gains are rationals [num, den].                              *)
(***************************************************************************)
EXTENDS Integers, Sequences, FiniteSets, TLC

\* ---------------------------------------------------------------- bounds
MaxCalls == 2        \* callbacks per behaviour
MaxProduced == 4     \* samples the application thread pushes (sink)
MaxConsumed == 1     \* samples the application thread pops (source)
MaxOps == 1          \* operator calls per behaviour
MaxDriverSteps == 3  \* output samples the resample driver is run for on its own
MaxParses == 4
MaxRawLen == 3
MaxStream == 2
MaxChunk == 4
MaxRetunes == 8
MaxInvocations == 3       \* parse_midi calls per behaviour

\* ------------------------------------------------------------- constants
FRAME_LOOKBACK == 4
ROLLING_AVG_LENGTH == 64
SCRATCH_ROWS == 4
NEARLY_FULL == 10

Micro == 10^6            \* fixed-point unit of the f64 quantities
Milli == 10^3

Stale == 0 - 1           \* what a device buffer holds before the callback
Silence == 0

SinkRingSizes == {4}
SourceRingSizes == {5, 10}
ChannelCounts == {1, 2}
Thresholds == {0, 1}
FramesOut == {1, 2}      \* frames of an output_samples buffer
FramesIn == {0, 1, 3, 6}    \* frames of an input_samples buffer

\* a caller-chosen PidSettings with strong gains, so that the ratio moves
\* within a few callbacks
StrongPid ==
    [prop_factor |-> [num |-> 1, den |-> 1],
     integ_factor |-> [num |-> 1, den |-> 10],
     deriv_factor |-> [num |-> 1, den |-> 10],
     min_factor |-> -800000,
     max_factor |-> 800000,
     factor_last_interp |-> 1000]

PidChoices == {StrongPid}

\* the same gains with half of the way to the new ratio taken per callback
FeedbackPid == [StrongPid EXCEPT !.factor_last_interp = 500]

\* PidSettings::default()
DefaultPid ==
    [prop_factor |-> [num |-> 1, den |-> 100000],
     integ_factor |-> [num |-> 7, den |-> 100000000],
     deriv_factor |-> [num |-> 1, den |-> 100000],
     min_factor |-> -200000,
     max_factor |-> 200000,
     factor_last_interp |-> 50]

\* a caller-chosen PidSettings that reacts to the change of the occupancy
\* alone and lets the factor go up to `bound`
DerivativePid(bound) ==
    [prop_factor |-> [num |-> 0, den |-> 1],
     integ_factor |-> [num |-> 0, den |-> 1],
     deriv_factor |-> [num |-> 200, den |-> 1],
     min_factor |-> -bound,
     max_factor |-> bound,
     factor_last_interp |-> 1000]

\* factor bounds 1.0 and 2.5: ratios up to 2 and up to 2^2.5
WidePidChoices == {DerivativePid(Micro), DerivativePid((5 * Micro) \div 2)}

VARIABLES
    kind,                         \* "sink" or "source"
    channels, ring_size, compensation_start_threshold, pid_settings,
    ring,                         \* the rtrb ring, oldest sample first
    last_frames,                  \* [channel][row 1..FRAME_LOOKBACK]
    resample_scratch,             \* [channel][row 1..SCRATCH_ROWS]
    rolling_ring_avg, ring_integral, last_avg, xruns, strategy,
    local_buffer,                 \* StreamSource only
    buffer_out,                   \* the device buffer of the running output_samples
    pc, cb,                       \* the callback's position and locals
    produced, consumed,           \* what the application thread did so far
    calls, ops,                   \* callbacks started, operator calls made
    entry,                        \* the state the running/last callback was entered in
    lastOp, callsSinceOp, countedSinceOp,
    written,                      \* what pass-through has stored in output buffers
    midi_message,                 \* the MidiData handed to write_midi_bytes
    midi_pending,                 \* its bytes that have not arrived yet
    midi_buffer,                  \* the byte queue parse_midi works on
    midi_result,                  \* what the last parse_midi call returned
    midi_parsed,                  \* the messages parse_midi has returned so far
    midi_calls, midi_chunks,      \* parse_midi calls made, chunks appended
    midi_entry,                   \* the queue as the last parse_midi call found it
    relative,                     \* IntermittentSource.relative
    channel_out,                  \* "open", or "closed" once the receiver is dropped
    sent,                         \* the TimedValues sent on the out-channel, in order
    device_stream,                \* what the device emits: messages and stray bytes
    invoked,                      \* the device timestamps of the invocations so far
    epoch,                        \* since_start of the first invocation (-1: none yet)
    last_call                     \* how the last input_messages call went

intermittent == <<relative, channel_out, sent, device_stream, invoked, epoch, last_call>>

midi_vars == <<midi_message, midi_pending, midi_buffer, midi_result, midi_parsed,
               midi_calls, midi_chunks, midi_entry, intermittent>>

vars == <<kind, channels, ring_size, compensation_start_threshold, pid_settings,
          ring, last_frames, resample_scratch, rolling_ring_avg, ring_integral,
          last_avg, xruns, strategy, local_buffer, buffer_out, pc, cb,
          produced, consumed, calls, ops, entry, lastOp, callsSinceOp,
          countedSinceOp, written, midi_vars>>

config == <<kind, channels, ring_size, compensation_start_threshold, pid_settings>>

\* ------------------------------------------------------- pure functions
RECURSIVE SumSeq(_)
SumSeq(s) == IF s = <<>> THEN 0 ELSE Head(s) + SumSeq(Tail(s))

Max(a, b) == IF a >= b THEN a ELSE b
Min(a, b) == IF a <= b THEN a ELSE b

\* lib.rs lerp; amount in 1/Milli.  (end - start) * amount / Milli, rounded
\* down, computed in two parts to stay within 32 bits
lerp(start, end, amount) ==
    LET d == end - start
    IN  (((d \div Milli) * amount) + (((d % Milli) * amount) \div Milli)) + start

\* 2_f64.powf(f), f and the result in 1/Micro: the Taylor series of
\* exp(f ln 2) up to the fourth power
Pow2(f) ==
    LET y == (f * 693) \div Milli
        ym == y \div Milli
        y2 == (ym * ym) \div Milli
    IN  Micro + y + ((ym * ym) \div 2) + ((y2 * ym) \div 6)
              + ((y2 * y2) \div 24)

\* resample.rs hermite_interpolate; t in 1/Micro
hermite_interpolateFromX2(x0, x1, x2, x3, t) ==
    LET diff == x1 - x2
        c1 == x2 - x0
        c3 == x3 - x0 + 3 * diff
        c2 == -(2 * diff + c1 + c3)
        tm == t \div Milli
        a == ((c3 * tm) \div Milli) + c2
        b == ((a * tm) \div Milli) + c1
    IN  ((b * tm) \div (2 * Milli)) + x2

hermite_interpolate(x0, x1, x2, x3, t) ==
    LET diff == x1 - x2
        c1 == x2 - x0
        c3 == x3 - x0 + 3 * diff
        c2 == -(2 * diff + c1 + c3)
        tm == t \div Milli
        a == ((c3 * tm) \div Milli) + c2
        b == ((a * tm) \div Milli) + c1
    IN  ((b * tm) \div (2 * Milli)) + x1

\* new_samples_needed(ratio, t) = floor(t + ratio)
new_samples_needed(ratio, t) == (t + ratio) \div Micro

\* The resample driver for one output sample of one channel: interpolate at
\* t over the lookback, add the ratio to t, and for every whole step of t
\* rotate the lookback left and load the next input sample into its last slot.
\* `taken` is the number of input samples it consumed.
RECURSIVE Advance(_, _, _)
Advance(last, samples_in, t) ==
    IF t < Micro
    THEN [last |-> last, time |-> t, rest |-> samples_in]
    ELSE IF samples_in = <<>>
    THEN Advance(last, samples_in, t - Micro)      \* no input left to load
    ELSE Advance(Append(Tail(last), Head(samples_in)), Tail(samples_in), t - Micro)

\* the driver that leaves the time as it is after adding the ratio
resampleNoWrap(ratio, samples_in, last, t) ==
    LET stepped == Advance(last, samples_in, t + ratio)
    IN  [out |-> hermite_interpolate(last[1], last[2], last[3], last[4], t),
         last |-> stepped.last,
         time |-> t + ratio,
         taken |-> Len(samples_in) - Len(stepped.rest)]

resample(ratio, samples_in, last, t) ==
    LET stepped == Advance(last, samples_in, t + ratio)
    IN  [out |-> hermite_interpolate(last[1], last[2], last[3], last[4], t),
         last |-> stepped.last,
         time |-> stepped.time,
         taken |-> Len(samples_in) - Len(stepped.rest)]

\* ----------------------------------------------------------- the ring
\* rtrb: Consumer::slots() is the number of samples that can be read,
\* Producer::slots() the number of free slots that can be written.
ReadSlots == Len(ring)
WriteSlots == ring_size - Len(ring)
RingEmpty == ring = <<>>
RingFull == Len(ring) = ring_size

\* ------------------------------------------------------------ strategy
StrategyNone == [tag |-> "None", resample_ratio |-> 0, time |-> 0]
StrategyNever == [tag |-> "Never", resample_ratio |-> 0, time |-> 0]
Resample(ratio, time) == [tag |-> "Resample", resample_ratio |-> ratio, time |-> time]

Zeros(n) == [i \in 1..n |-> 0]

\* the callback's locals when no callback runs
CbIdle ==
    [measure_xruns |-> FALSE, ring_slots |-> 0, frames |-> 0, arming |-> FALSE,
     controlled |-> FALSE,   \* the controller step ran in this call
     avg |-> 0, new_ratio |-> 0, i |-> 0, frame_i |-> 0, sample_i |-> 0, channel_i |-> 0,
     align |-> 0, after |-> "idle", ratio |-> 0, time |-> 0, k |-> 0,
     frame_time |-> 0,   \* the time the first channel of the frame was given
     failed |-> -1,      \* the channel index of the pop or push that failed
     burned |-> 0]       \* what the alignment guard popped or pushed since

NoEntry ==
    [ring |-> <<>>, buffer |-> <<>>, xruns |-> 0, strategy |-> StrategyNone,
     ring_integral |-> 0, interfered |-> FALSE,
     window |-> <<>>,   \* rolling_ring_avg as the call found it
     lookback |-> <<>>, \* last_frames as the call found it
     seen |-> <<>>]     \* the slots() value each call so far read on entry

\* ---------------------------------------------------------------- MIDI
\* midi.rs.  A byte is a number in 0..255; x & 0x80 != 0 is x >= 128,
\* x & 0x7F is x % 128, x >> 4 is x \div 16, x & 0x0F is x % 16, and the
\* `|` of a status nibble and a masked value is their sum.
MidiNone == [tag |-> "MidiNone"]

\* Option<MidiData>, and the two ways a call can fail to return one
None == [tag |-> "None"]
Some(data) == [tag |-> "Some", data |-> data]
Panicked == [tag |-> "Panicked"]         \* pop_front().unwrap() on an empty queue
Diverged == [tag |-> "Diverged"]         \* the call never returns
Unparsed == [tag |-> "Unparsed"]         \* no call since the last bytes arrived

\* SysRt as u8
SysRtByte ==
    [MidiClock |-> 248, Tick |-> 249, Start |-> 250, Continue |-> 251, Stop |-> 252,
     ActiveSensing |-> 254, Reset |-> 255]

\* the Timecode variants in the order of their quarter-frame type 0..7
TimecodeKinds ==
    <<"FrameLow", "FrameHigh", "SecondsLow", "SecondsHigh", "MinutesLow",
      "MinutesHigh", "HoursLow", "HoursHigh">>

Timecode(kind_of, value) == [kind |-> kind_of, value |-> value]

\* the two bytes in the other order
u16_to_midi_bytesHighFirst(x) == <<(x \div 128) % 128, x % 128>>

\* u16_to_midi_bytes: [low, high]
u16_to_midi_bytes(x) == <<x % 128, (x \div 128) % 128>>

\* write_midi_bytes: the bytes handed to the writer
write_midi_bytes(message) ==
    CASE message.tag = "NoteOff" ->
            <<128 + (message.channel % 16), message.note, message.velocity>>
      [] message.tag = "NoteOn" ->
            <<144 + (message.channel % 16), message.note, message.velocity>>
      [] message.tag = "Aftertouch" ->
            <<160 + (message.channel % 16), message.note, message.pressure>>
      [] message.tag = "ControlChange" ->
            <<176 + (message.channel % 16), message.controller, message.value>>
      [] message.tag = "ProgramChange" ->
            <<192 + (message.channel % 16), message.patch>>
      [] message.tag = "ChannelPressure" ->
            <<208 + (message.channel % 16), message.pressure>>
      [] message.tag = "PitchBend" ->
            <<224 + (message.channel % 16)>> \o u16_to_midi_bytes(message.pitch_bend)
      [] message.tag = "QuarterFrame" ->
            LET type == CHOOSE i \in 1..8 : TimecodeKinds[i] = message.time_fragment.kind
            IN  <<241, ((type - 1) * 16) + (message.time_fragment.value % 16)>>
      [] message.tag = "SongPositionPointer" ->
            <<242>> \o u16_to_midi_bytes(message.position)
      [] message.tag = "SongSelect" -> <<243, message.song>>
      [] message.tag = "TuneRequest" -> <<246>>
      [] message.tag = "SysRt" -> <<SysRtByte[message.msg]>>
      [] message.tag = "SysEx" -> (<<240>> \o message.id_and_data) \o <<247>>
      [] message.tag = "MidiNone" -> <<>>

\* the loop at the head of prep_message: drop the bytes without a status bit
RECURSIVE SkipData(_)
SkipData(buffer) ==
    IF buffer # <<>> /\ Head(buffer) < 128 THEN SkipData(Tail(buffer)) ELSE buffer

\* for (i, value) in buffer.iter().enumerate(): the indices, from 0 on, whose
\* byte is 0xF7 or has the status bit set
SysExScan(buffer) ==
    {i \in 0..(Len(buffer) - 1) : buffer[i + 1] >= 128}

\* prep_message: the length needed (-1 for None), the queue as it leaves it,
\* and whether the call returns at all
RECURSIVE prep_message(_)
prep_message(buffer_in) ==
    LET buffer == SkipData(buffer_in)
        first_byte == Head(buffer)
        Needs(count) == [needed |-> count, buffer |-> buffer, diverges |-> FALSE]
    IN  IF buffer = <<>> THEN Needs(-1)
        ELSE IF first_byte <= 239
        THEN Needs(IF first_byte \div 16 \in {12, 13} THEN 2 ELSE 3)
        ELSE IF first_byte % 16 = 0
        THEN LET hits == SysExScan(buffer)
                 i == CHOOSE h \in hits : \A other \in hits : h <= other
                 drained == SubSeq(buffer, i + 1, Len(buffer))
             IN  IF hits = {} THEN Needs(-1)
                 ELSE IF buffer[i + 1] = 247 THEN Needs(i + 1)
                 ELSE IF drained = buffer
                 THEN \* prep_message(buffer) again, on the same bytes: no end
                      [needed |-> -1, buffer |-> buffer, diverges |-> TRUE]
                 ELSE prep_message(drained)
        ELSE Needs(IF first_byte % 16 = 2 THEN 3
                   ELSE IF first_byte % 16 \in {1, 3} THEN 2
                   ELSE 1)

\* the SysEx arm of parse_midi: up to `count` bytes popped, collected until a
\* byte with the status bit is popped
RECURSIVE SysExData(_, _, _)
SysExData(buffer, count, data) ==
    IF count = 0 \/ buffer = <<>> THEN [data |-> data, buffer |-> buffer]
    ELSE IF Head(buffer) >= 128 THEN [data |-> data, buffer |-> Tail(buffer)]
    ELSE SysExData(Tail(buffer), count - 1, Append(data, Head(buffer)))

\* the length check without the length
EnoughInBufferAnyLength(needed, buffer) == needed >= 0

\* enough_in_buffer
EnoughInBuffer(needed, buffer) == needed >= 0 /\ Len(buffer) >= needed

\* the status byte popped and nothing else
PopsOfStatusOnly(first_byte) == 1

\* how many times the arm of parse_midi for this status byte calls n(buffer),
\* the pop of the status byte included (the SysEx arm pops on its own)
PopsOf(first_byte) ==
    IF first_byte <= 239
    THEN (IF first_byte \div 16 \in {12, 13} THEN 2 ELSE 3)
    ELSE IF first_byte % 16 = 2 THEN 3
    ELSE IF first_byte % 16 \in {1, 3, 4, 5, 7, 13} THEN 2
    ELSE 1

\* the message parse_midi builds from a queue that holds all the bytes the arm
\* pops (None for the bytes it drops)
Decoded(buffer) ==
    LET first_byte == buffer[1]
        message == first_byte \div 16
        channel == first_byte % 16
        low == first_byte % 16
    IN  CASE message = 8 ->
               Some([tag |-> "NoteOff", channel |-> channel,
                     note |-> buffer[2] % 128, velocity |-> buffer[3] % 128])
          [] message = 9 ->
               Some([tag |-> "NoteOn", channel |-> channel,
                     note |-> buffer[2] % 128, velocity |-> buffer[3] % 128])
          [] message = 10 ->
               Some([tag |-> "Aftertouch", channel |-> channel,
                     note |-> buffer[2] % 128, pressure |-> buffer[3] % 128])
          [] message = 11 ->
               Some([tag |-> "ControlChange", channel |-> channel,
                     controller |-> buffer[2] % 128, value |-> buffer[3] % 128])
          [] message = 12 ->
               Some([tag |-> "ProgramChange", channel |-> channel,
                     patch |-> buffer[2] % 128])
          [] message = 13 ->
               Some([tag |-> "ChannelPressure", channel |-> channel,
                     pressure |-> buffer[2] % 128])
          [] message = 14 ->
               Some([tag |-> "PitchBend", channel |-> channel,
                     pitch_bend |-> (buffer[2] % 128) + ((buffer[3] % 128) * 128)])
          [] message = 15 /\ low = 1 ->
               LET data_byte == buffer[2] % 128
                   value_type == (data_byte \div 16) % 16
                   value == data_byte % 16
               IN  Some([tag |-> "QuarterFrame",
                         time_fragment |-> Timecode(TimecodeKinds[value_type + 1], value)])
          [] message = 15 /\ low = 2 ->
               Some([tag |-> "SongPositionPointer",
                     position |-> (buffer[2] % 128) + ((buffer[3] % 128) * 128)])
          [] message = 15 /\ low = 3 -> Some([tag |-> "SongSelect", song |-> buffer[2]])
          [] message = 15 /\ low \in {4, 5, 7, 13} -> None
          [] message = 15 /\ low = 6 -> Some([tag |-> "TuneRequest"])
          [] message = 15 /\ low \in {8, 9, 10, 11, 12, 14, 15} ->
               Some([tag |-> "SysRt",
                     msg |-> CHOOSE name \in DOMAIN SysRtByte : SysRtByte[name] = first_byte])

\* parse_midi: what the call returns and the queue as it leaves it
parse_midi(buffer_in) ==
    LET prep == prep_message(buffer_in)
        buffer == prep.buffer
        first_byte == Head(buffer)
    IN  IF prep.diverges THEN [result |-> Diverged, buffer |-> buffer]
        ELSE IF ~EnoughInBuffer(prep.needed, buffer) THEN [result |-> None, buffer |-> buffer]
        ELSE IF first_byte = 240
        THEN LET sysex == SysExData(Tail(buffer), prep.needed, <<>>)
             IN  [result |-> Some([tag |-> "SysEx", id_and_data |-> sysex.data]),
                  buffer |-> sysex.buffer]
        ELSE IF Len(buffer) < PopsOf(first_byte)
        THEN \* n(buffer) unwraps the pop of an empty queue
             [result |-> Panicked, buffer |-> <<>>]
        ELSE [result |-> Decoded(buffer),
              buffer |-> SubSeq(buffer, PopsOf(first_byte) + 1, Len(buffer))]

\* the difference taken the other way round
subReversed(first, second) ==
    IF first > second
    THEN [tag |-> "Negative", duration |-> first - second]
    ELSE [tag |-> "Positive", duration |-> second - first]

\* lib.rs DeltaDuration::sub: first - second with its sign
sub(first, second) ==
    IF second > first
    THEN [tag |-> "Negative", duration |-> second - first]
    ELSE [tag |-> "Positive", duration |-> first - second]

\* lib.rs DeltaDuration::add_to; a Duration cannot be negative: -1 stands for
\* the panic of `other - *duration` when duration > other
add_to(delta, other) ==
    IF delta.tag = "Positive" THEN other + delta.duration
    ELSE IF delta.duration > other THEN -1
    ELSE other - delta.duration

\* intermittent.rs TimedValue, as the closure of start_midir_source builds it;
\* `call` remembers which invocation sent it
TimedValue(since_start, value, call) ==
    [since_start |-> since_start, value |-> value, call |-> call]

\* no input_messages call yet
NoCall == [how |-> "idle", hung_up |-> FALSE, sends |-> 0, parsed |-> 0]

\* the while loop of input_messages: mapper.step (None on an empty queue,
\* parse_midi otherwise) and channel_out.send until the first None or the
\* first failed send
RECURSIVE Forward(_, _, _, _, _)
Forward(values_in, out, open, time, call) ==
    LET Ends(how, queue) == [how |-> how, values_in |-> queue, sent |-> out, parsed |-> 0]
        step == parse_midi(values_in)
    IN  IF values_in = <<>> THEN Ends("returned", values_in)
        ELSE IF step.result.tag = "Diverged" THEN Ends("diverged", step.buffer)
        ELSE IF step.result.tag = "Panicked" THEN Ends("panicked", step.buffer)
        ELSE IF step.result.tag = "None" THEN Ends("returned", step.buffer)
        ELSE IF ~open THEN [Ends("returned", step.buffer) EXCEPT !.parsed = 1]
        ELSE LET rest == Forward(step.buffer,
                                 Append(out, TimedValue(time, step.result.data, call)),
                                 open, time, call)
             IN  [rest EXCEPT !.parsed = @ + 1]

\* IntermittentSource::new, with the receiver alive and nothing to deliver
NoIntermittent ==
    /\ relative = None
    /\ channel_out = "open"
    /\ sent = <<>>
    /\ device_stream = <<>>
    /\ invoked = <<>>
    /\ epoch = -1
    /\ last_call = NoCall

\* no MIDI traffic
NoMidi ==
    /\ midi_message = MidiNone
    /\ midi_pending = <<>>
    /\ midi_buffer = <<>>
    /\ midi_result = Unparsed
    /\ midi_parsed = <<>>
    /\ midi_calls = 0
    /\ midi_chunks = 0
    /\ midi_entry = <<>>
    /\ NoIntermittent

\* ----------------------------------------------------------------- Init
\* StreamSink::new / StreamSource::new around an empty ring, with the
\* caller's choice of threshold and PidSettings
NewStream(kinds, thresholds, pids) ==
    /\ kind \in kinds
    /\ channels \in ChannelCounts
    /\ ring_size \in (IF kind = "sink" THEN SinkRingSizes ELSE SourceRingSizes)
    /\ compensation_start_threshold \in thresholds
    /\ pid_settings \in pids
    /\ ring = <<>>
    /\ last_frames = [c \in 1..channels |-> Zeros(FRAME_LOOKBACK)]
    /\ resample_scratch = [c \in 1..channels |-> Zeros(SCRATCH_ROWS)]
    /\ rolling_ring_avg = Zeros(ROLLING_AVG_LENGTH)
    /\ ring_integral = 0
    /\ last_avg = 0
    /\ xruns = 0
    /\ strategy = StrategyNone
    /\ local_buffer = <<>>
    /\ buffer_out = <<>>
    /\ pc = "idle"
    /\ cb = CbIdle
    /\ produced = 0
    /\ consumed = 0
    /\ calls = 0
    /\ ops = 0
    /\ entry = NoEntry
    /\ lastOp = "new"
    /\ callsSinceOp = 0
    /\ countedSinceOp = 0
    /\ written = <<>>

New(kinds, thresholds, pids) == NewStream(kinds, thresholds, pids) /\ NoMidi

Init == New({"sink", "source"}, Thresholds, PidChoices)

\* ------------------------------------------------- shared by both structs
\* handle_xrun that counts in the startup window too
handle_xrunAlways(x, measure_xruns) == x + 1

\* handle_xrun: the new value of xruns
handle_xrun(x, measure_xruns) == IF measure_xruns THEN x + 1 ELSE x

\* the xruns a callback counted while measure_xruns was true
Counted(c, measure_xruns) == IF measure_xruns THEN c + 1 ELSE c

\* preserve_alignment, one short
AlignCountShort(channel_i) == (channels - channel_i - 1) % channels

\* preserve_alignment that does nothing
AlignCountNone(channel_i) == 0

\* preserve_alignment: how many samples to burn (sink) or zeros to push (source)
AlignCount(channel_i) == (channels - channel_i) % channels

\* the factor as the PID asks for it, unclamped
NewFactorUnclamped(raw) == raw

\* new_factor: the sum of the PID terms, clamped to [min_factor, max_factor]
NewFactor(raw) == Min(Max(raw, pid_settings.min_factor), pid_settings.max_factor)

\* *resample_ratio = lerp(*resample_ratio, new_ratio, factor_last_interp)
Retuned(ratio, new_ratio) == lerp(ratio, new_ratio, pid_settings.factor_last_interp)

\* the controller with the error taken the other way round
ControllerReversed ==
    LET avg == (SumSeq(rolling_ring_avg) * Micro) \div (ROLLING_AVG_LENGTH * ring_size)
        target == Micro \div 2
        error == target - avg
        integral == ring_integral + error
        Term(x, gain) == (x * gain.num) \div gain.den
        proportional == Term(error, pid_settings.prop_factor)
        integrative == Term(integral, pid_settings.integ_factor)
        derivative == Term(avg - last_avg, pid_settings.deriv_factor)
        new_factor == NewFactor(proportional + integrative + derivative)
    IN  [avg |-> avg, integral |-> integral, new_ratio |-> Pow2(new_factor)]

\* The controller step of output_samples / input_samples, from the window as
\* it stands when the callback is entered: avg, the integral after adding
\* the error, and the ratio the PID asks for.
Controller ==
    LET avg == (SumSeq(rolling_ring_avg) * Micro) \div (ROLLING_AVG_LENGTH * ring_size)
        target == Micro \div 2
        error == avg - target
        integral == ring_integral + error
        Term(x, gain) == (x * gain.num) \div gain.den
        proportional == Term(error, pid_settings.prop_factor)
        integrative == Term(integral, pid_settings.integ_factor)
        derivative == Term(avg - last_avg, pid_settings.deriv_factor)
        new_factor == NewFactor(proportional + integrative + derivative)
    IN  [avg |-> avg, integral |-> integral, new_ratio |-> Pow2(new_factor)]

\* the window shifted right, the new value stored in its first slot
RotatedRight(window, ring_slots) ==
    <<ring_slots>> \o SubSeq(window, 1, Len(window) - 1)

\* rolling_ring_avg.rotate_left(1); rolling_ring_avg[len - 1] = ring_slots
Rotated(window, ring_slots) == Append(Tail(window), ring_slots)

\* the source's strict comparison in the sink
SinkThresholdStrict(x) == x > compensation_start_threshold

\* StreamSink: if self.xruns >= self.compensation_start_threshold
SinkThresholdReached(x) == x >= compensation_start_threshold

\* StreamSource: if self.xruns > self.compensation_start_threshold
SourceThresholdReached(x) == x > compensation_start_threshold

\* arming from Never as well
ArmsUnlessResample(tag) == tag # "Resample"

\* if let CompensationStrategy::None = self.strategy: the controller arms
Arms(tag) == tag = "None"

\* the sample stored channel by channel instead of interleaved
StoreSamplePlanar(buffer, i, sample) ==
    [buffer EXCEPT ![((i % channels) * (Len(buffer) \div channels)) + (i \div channels) + 1]
                      = sample]

\* the sample stored one slot further on
StoreSampleShifted(buffer, i, sample) ==
    [buffer EXCEPT ![((i + 1) % Len(buffer)) + 1] = sample]

\* *sample_out = sample, for the slot with index i
StoreSample(buffer, i, sample) == [buffer EXCEPT ![i + 1] = sample]

\* the store that took the buffer from `before` to `after`: the index of the
\* slot that changed and the sample it holds now
Stored(before, after) ==
    LET j == CHOOSE j \in 1..Len(after) : after[j] # before[j]
    IN  [index |-> j - 1, sample |-> after[j]]

\* the rest of the buffer zeroed after a failed pop
AfterUnderrunSilence(buffer, i) ==
    [j \in 1..Len(buffer) |-> IF j > i THEN Silence ELSE buffer[j]]

\* the buffer after a pop failed at index i: the loop breaks, the slots from
\* i on keep what they held
AfterUnderrun(buffer, i) == buffer

\* what the callback leaves alone while it runs
fixed == <<kind, channels, ring_size, compensation_start_threshold, pid_settings,
           produced, consumed, calls, ops, entry, lastOp, callsSinceOp, written,
           midi_vars>>

\* clean_up(channel_i, measure_xruns) of either struct, up to its first access
\* to the ring: with nothing to align the xrun is counted at once and the
\* callback goes on at `after`; otherwise the alignment guard starts.
CleanUp(channel_i, after) ==
    IF AlignCount(channel_i) = 0
    THEN /\ xruns' = handle_xrun(xruns, cb.measure_xruns)
         /\ countedSinceOp' = Counted(countedSinceOp, cb.measure_xruns)
         /\ cb' = [cb EXCEPT !.after = "idle", !.failed = channel_i, !.burned = 0]
         /\ pc' = after
    ELSE /\ cb' = [cb EXCEPT !.align = AlignCount(channel_i), !.after = after,
                            !.failed = channel_i, !.burned = 0]
         /\ pc' = "burn"
         /\ UNCHANGED <<xruns, countedSinceOp>>

\* ---------------------------------------------------------- StreamSink
\* output_samples, from its entry to the first pop: the full-ring check, the
\* controller step and, when it arms, the switch to Resample.
SinkEnter(frames, measure_xruns) ==
    /\ kind = "sink"
    /\ pc = "idle"
    /\ calls < MaxCalls
    /\ LET ring_slots == ReadSlots
           overrun == ring_slots = ring_size
           x == IF overrun THEN handle_xrun(xruns, measure_xruns) ELSE xruns
           run == SinkThresholdReached(x)
           arming == run /\ Arms(strategy.tag)
           ctl == Controller
       IN  /\ xruns' = x
           /\ countedSinceOp' =
                IF overrun THEN Counted(countedSinceOp, measure_xruns) ELSE countedSinceOp
           /\ ring_integral' =
                IF ~run THEN ring_integral ELSE IF arming THEN 0 ELSE ctl.integral
           /\ strategy' =
                IF arming THEN Resample(Micro, 0)
                ELSE IF run /\ strategy.tag = "Resample"
                THEN [strategy EXCEPT !.resample_ratio = Retuned(@, ctl.new_ratio)]
                ELSE strategy
           /\ cb' = [CbIdle EXCEPT !.measure_xruns = measure_xruns,
                                   !.ring_slots = ring_slots,
                                   !.frames = frames,
                                   !.arming = arming,
                                   !.controlled = run,
                                   !.avg = IF run THEN ctl.avg ELSE 0,
                                   !.new_ratio = IF run THEN ctl.new_ratio ELSE 0,
                                   !.frame_i = IF arming THEN 1 ELSE 0]
           /\ pc' = IF arming THEN "seed" ELSE "dispatch"
    /\ buffer_out' = [i \in 1..(frames * channels) |-> Stale]
    /\ entry' = [ring |-> ring, buffer |-> buffer_out', xruns |-> xruns,
                 strategy |-> strategy, ring_integral |-> ring_integral,
                 interfered |-> FALSE, window |-> rolling_ring_avg,
                 lookback |-> last_frames,
                 seen |-> Append(entry.seen, ReadSlots)]
    /\ calls' = calls + 1
    /\ callsSinceOp' = callsSinceOp + 1
    /\ UNCHANGED <<config, midi_vars, ring, last_frames, resample_scratch, rolling_ring_avg,
                   last_avg, local_buffer, produced, consumed, ops, lastOp, written>>

\* the seeding loop filling the lookback from row 0
SinkSeedFromRowZero ==
    /\ kind = "sink"
    /\ pc = "seed"
    /\ IF ~RingEmpty
       THEN LET last_channel == cb.channel_i + 1 = channels
                frame_i == IF last_channel THEN cb.frame_i + 1 ELSE cb.frame_i
            IN  /\ last_frames' =
                     [last_frames EXCEPT ![cb.channel_i + 1][cb.frame_i] = Head(ring)]
                /\ ring' = Tail(ring)
                /\ cb' = [cb EXCEPT !.channel_i = IF last_channel THEN 0 ELSE @ + 1,
                                    !.frame_i = frame_i]
                /\ pc' = IF frame_i = FRAME_LOOKBACK THEN "dispatch" ELSE "seed"
                /\ UNCHANGED <<xruns, countedSinceOp>>
       ELSE /\ CleanUp(cb.channel_i, "dispatch")
            /\ UNCHANGED <<ring, last_frames>>
    /\ UNCHANGED <<fixed, resample_scratch, rolling_ring_avg, ring_integral, last_avg,
                   strategy, local_buffer, buffer_out>>

\* one pop of the loop that fills rows 1..3 of the lookback at arming
SinkSeed ==
    /\ kind = "sink"
    /\ pc = "seed"
    /\ IF ~RingEmpty
       THEN LET last_channel == cb.channel_i + 1 = channels
                frame_i == IF last_channel THEN cb.frame_i + 1 ELSE cb.frame_i
            IN  /\ last_frames' =
                     [last_frames EXCEPT ![cb.channel_i + 1][cb.frame_i + 1] = Head(ring)]
                /\ ring' = Tail(ring)
                /\ cb' = [cb EXCEPT !.channel_i = IF last_channel THEN 0 ELSE @ + 1,
                                    !.frame_i = frame_i]
                /\ pc' = IF frame_i = FRAME_LOOKBACK THEN "dispatch" ELSE "seed"
                /\ UNCHANGED <<xruns, countedSinceOp>>
       ELSE /\ CleanUp(cb.channel_i, "dispatch")
            /\ UNCHANGED <<ring, last_frames>>
    /\ UNCHANGED <<fixed, resample_scratch, rolling_ring_avg, ring_integral, last_avg,
                   strategy, local_buffer, buffer_out>>

\* last_avg = avg (when arming), the window update and the match on strategy
SinkDispatch ==
    /\ kind = "sink"
    /\ pc = "dispatch"
    /\ last_avg' = IF cb.arming THEN cb.avg ELSE last_avg
    /\ rolling_ring_avg' = Rotated(rolling_ring_avg, cb.ring_slots)
    /\ cb' = [CbIdle EXCEPT !.measure_xruns = cb.measure_xruns,
                            !.frames = cb.frames,
                            !.controlled = cb.controlled,
                            !.avg = cb.avg,
                            !.new_ratio = cb.new_ratio,
                            !.ratio = IF strategy.tag = "Resample"
                                      THEN strategy.resample_ratio ELSE 0,
                            !.time = IF strategy.tag = "Resample"
                                     THEN strategy.time ELSE 0]
    /\ pc' = IF strategy.tag = "Resample" THEN "resample" ELSE "pass"
    /\ UNCHANGED <<fixed, ring, last_frames, resample_scratch, ring_integral, xruns,
                   strategy, local_buffer, buffer_out, countedSinceOp>>

\* strategy None or Never: one pop per output slot
SinkPass ==
    /\ kind = "sink"
    /\ pc = "pass"
    /\ IF cb.i = Len(buffer_out)
       THEN /\ pc' = "ret"
            /\ UNCHANGED <<ring, buffer_out, cb, xruns, countedSinceOp, written>>
       ELSE IF ~RingEmpty
       THEN /\ buffer_out' = StoreSample(buffer_out, cb.i, Head(ring))
            /\ written' = Append(written, Stored(buffer_out, buffer_out'))
            /\ ring' = Tail(ring)
            /\ cb' = [cb EXCEPT !.i = @ + 1]
            /\ UNCHANGED <<pc, xruns, countedSinceOp>>
       ELSE /\ CleanUp(cb.i % channels, "ret")
            /\ buffer_out' = AfterUnderrun(buffer_out, cb.i)
            /\ UNCHANGED <<ring, written>>
    /\ UNCHANGED <<config, midi_vars, produced, consumed, calls, ops, entry, lastOp, callsSinceOp,
                   last_frames, resample_scratch, rolling_ring_avg, ring_integral,
                   last_avg, strategy, local_buffer>>

\* the output frame frame_i from the lookback and the scratch matrix, every
\* channel at the same time; the time becomes the one the driver returns
SinkFrame(frames_last, scratch, ratio, time) ==
    [c \in 1..channels |-> resample(ratio, scratch[c], frames_last[c], time)]

\* strategy Resample: pop needed_new_samples frames into the scratch matrix,
\* then interpolate one output frame
SinkResample ==
    /\ kind = "sink"
    /\ pc = "resample"
    /\ LET needed_new_samples == new_samples_needed(cb.ratio, cb.time)
       IN  IF cb.frame_i = cb.frames
           THEN /\ pc' = "ret"
                /\ UNCHANGED <<ring, buffer_out, cb, xruns, countedSinceOp,
                               last_frames, resample_scratch>>
           ELSE IF cb.sample_i < needed_new_samples
           THEN IF ~RingEmpty
                THEN LET last_channel == cb.channel_i + 1 = channels
                     IN  IF cb.sample_i >= SCRATCH_ROWS
                         THEN \* resample_scratch[(new_sample_i, channel_i)] panics
                              /\ ring' = Tail(ring)
                              /\ pc' = "oob"
                              /\ UNCHANGED <<cb, buffer_out, xruns, countedSinceOp,
                                             last_frames, resample_scratch>>
                         ELSE
                         /\ resample_scratch' =
                              [resample_scratch EXCEPT
                                 ![cb.channel_i + 1][cb.sample_i + 1] = Head(ring)]
                         /\ ring' = Tail(ring)
                         /\ cb' = [cb EXCEPT
                                     !.channel_i = IF last_channel THEN 0 ELSE @ + 1,
                                     !.sample_i = IF last_channel THEN @ + 1 ELSE @]
                         /\ UNCHANGED <<pc, buffer_out, xruns, countedSinceOp, last_frames>>
                ELSE /\ CleanUp(cb.channel_i, "ret")
                     /\ buffer_out' = AfterUnderrun(buffer_out, cb.frame_i * channels)
                     /\ UNCHANGED <<ring, last_frames, resample_scratch>>
           ELSE LET out == SinkFrame(last_frames, resample_scratch, cb.ratio, cb.time)
                IN  /\ buffer_out' =
                         [i \in 1..Len(buffer_out) |->
                            IF (i - 1) \div channels = cb.frame_i
                            THEN out[((i - 1) % channels) + 1].out
                            ELSE buffer_out[i]]
                    /\ last_frames' = [c \in 1..channels |-> out[c].last]
                    /\ cb' = [cb EXCEPT !.time = out[channels].time,
                                        !.frame_i = @ + 1,
                                        !.sample_i = 0,
                                        !.channel_i = 0]
                    /\ UNCHANGED <<pc, ring, xruns, countedSinceOp, resample_scratch>>
    /\ UNCHANGED <<fixed, rolling_ring_avg, ring_integral, last_avg, strategy,
                   local_buffer>>

\* preserve_alignment: one successful pop of the guard; a pop that finds the
\* ring empty sleeps and tries again, which changes nothing.  After the last
\* one clean_up counts the xrun.
SinkBurn ==
    /\ kind = "sink"
    /\ pc = "burn"
    /\ ~RingEmpty
    /\ ring' = Tail(ring)
    /\ IF cb.align = 1
       THEN /\ xruns' = handle_xrun(xruns, cb.measure_xruns)
            /\ countedSinceOp' = Counted(countedSinceOp, cb.measure_xruns)
            /\ pc' = cb.after
            /\ cb' = [cb EXCEPT !.align = 0, !.after = "idle", !.burned = @ + 1]
       ELSE /\ cb' = [cb EXCEPT !.align = @ - 1, !.burned = @ + 1]
            /\ UNCHANGED <<pc, xruns, countedSinceOp>>
    /\ UNCHANGED <<fixed, last_frames, resample_scratch, rolling_ring_avg, ring_integral,
                   last_avg, strategy, local_buffer, buffer_out>>

\* output_samples returns
SinkReturn ==
    /\ kind = "sink"
    /\ pc = "ret"
    /\ pc' = "idle"
    /\ cb' = CbIdle
    /\ entry' = [NoEntry EXCEPT !.seen = entry.seen]
    /\ UNCHANGED <<config, midi_vars, produced, consumed, calls, ops, lastOp, callsSinceOp, ring,
                   last_frames, resample_scratch, rolling_ring_avg,
                   ring_integral, last_avg, xruns, strategy, local_buffer, buffer_out,
                   countedSinceOp, written>>

\* the application thread pushes its next sample (the samples are numbered)
ProducerPush ==
    /\ kind = "sink"
    /\ produced < MaxProduced
    /\ ~RingFull
    /\ ring' = Append(ring, produced + 1)
    /\ produced' = produced + 1
    /\ entry' = IF pc = "idle" THEN entry ELSE [entry EXCEPT !.interfered = TRUE]
    /\ UNCHANGED <<config, midi_vars, last_frames, resample_scratch, rolling_ring_avg, ring_integral,
                   last_avg, xruns, strategy, local_buffer, buffer_out, pc, cb, consumed,
                   calls, ops, lastOp, callsSinceOp, countedSinceOp, written>>

\* the operator calls take &mut self: they run between callbacks
OperatorCall(name, new_xruns, new_strategy) ==
    /\ pc = "idle"
    /\ ops < MaxOps
    /\ xruns' = new_xruns
    /\ strategy' = new_strategy
    /\ ops' = ops + 1
    /\ lastOp' = name
    /\ callsSinceOp' = 0
    /\ countedSinceOp' = 0
    /\ UNCHANGED <<config, midi_vars, ring, last_frames, resample_scratch, rolling_ring_avg,
                   ring_integral, last_avg, local_buffer, buffer_out, pc, cb, produced,
                   consumed, calls, entry, written>>

SinkEnableCompensation ==
    kind = "sink" /\ OperatorCall("enable", compensation_start_threshold, StrategyNone)

SinkDisableCompensation ==
    kind = "sink" /\ OperatorCall("disable", 0, StrategyNever)

\* reset_compensation that leaves xruns alone
SinkResetKeepsXruns ==
    kind = "sink" /\ OperatorCall("reset", xruns, StrategyNone)

\* reset_compensation that leaves the strategy alone
SinkResetCompensationKeepsStrategy ==
    kind = "sink" /\ OperatorCall("reset", 0, strategy)

SinkResetCompensation ==
    kind = "sink" /\ OperatorCall("reset", 0, StrategyNone)

\* -------------------------------------------------------- StreamSource
\* the samples the device hands to input_samples are numbered as well
DeviceSamples(first, n) == [i \in 1..n |-> first + i]

\* the loop that fills rows 1..3 of the lookback from the local queue at
\* arming: the lookback and the queue after n pops
RECURSIVE SeedFromLocal(_, _, _)
SeedFromLocal(frames_last, queue, n) ==
    IF n = 3 * channels \/ queue = <<>>
    THEN [last_frames |-> frames_last, local_buffer |-> queue,
          panicked |-> n < 3 * channels]
    ELSE SeedFromLocal(
            [frames_last EXCEPT ![(n % channels) + 1][(n \div channels) + 2] = Head(queue)],
            Tail(queue), n + 1)

\* input_samples, from its entry to the first push: the nearly-full check,
\* the local queue, the controller step and, when it arms, the switch to
\* Resample and the seeding of the lookback (pop_front().unwrap()).
SourceEnter(frames, measure_xruns) ==
    /\ kind = "source"
    /\ pc = "idle"
    /\ calls < MaxCalls
    /\ LET ring_slots == WriteSlots
           nearly_full == ring_slots < NEARLY_FULL
           x == IF nearly_full THEN handle_xrun(xruns, measure_xruns) ELSE xruns
           queue == local_buffer \o DeviceSamples(produced, frames * channels)
           run == SourceThresholdReached(x)
           arming == run /\ Arms(strategy.tag)
           ctl == Controller
           seed == IF arming THEN SeedFromLocal(last_frames, queue, 0)
                   ELSE [last_frames |-> last_frames, local_buffer |-> queue,
                         panicked |-> FALSE]
           strategy_now ==
                IF arming THEN Resample(Micro, 0)
                ELSE IF run /\ strategy.tag = "Resample"
                THEN [strategy EXCEPT !.resample_ratio = Retuned(@, ctl.new_ratio)]
                ELSE strategy
       IN  /\ xruns' = x
           /\ countedSinceOp' =
                IF nearly_full THEN Counted(countedSinceOp, measure_xruns)
                ELSE countedSinceOp
           /\ ring_integral' =
                IF ~run THEN ring_integral ELSE IF arming THEN 0 ELSE ctl.integral
           /\ strategy' = strategy_now
           /\ last_frames' = seed.last_frames
           /\ local_buffer' = seed.local_buffer
           /\ rolling_ring_avg' =
                IF seed.panicked THEN rolling_ring_avg
                ELSE Rotated(rolling_ring_avg, ring_slots)
           /\ cb' = [CbIdle EXCEPT !.measure_xruns = measure_xruns,
                                   !.ring_slots = ring_slots,
                                   !.frames = frames,
                                   !.arming = arming,
                                   !.controlled = run,
                                   !.avg = IF run THEN ctl.avg ELSE 0,
                                   !.new_ratio = IF run THEN ctl.new_ratio ELSE 0,
                                   !.ratio = IF strategy_now.tag = "Resample"
                                             THEN strategy_now.resample_ratio ELSE 0,
                                   !.time = IF strategy_now.tag = "Resample"
                                            THEN strategy_now.time ELSE 0]
           /\ pc' = IF seed.panicked THEN "panic"
                    ELSE IF strategy_now.tag = "Resample" THEN "resample" ELSE "pass"
    /\ produced' = produced + frames * channels
    /\ entry' = [ring |-> ring, buffer |-> local_buffer, xruns |-> xruns,
                 strategy |-> strategy, ring_integral |-> ring_integral,
                 interfered |-> FALSE, window |-> rolling_ring_avg,
                 lookback |-> last_frames,
                 seen |-> Append(entry.seen, WriteSlots)]
    /\ calls' = calls + 1
    /\ callsSinceOp' = callsSinceOp + 1
    /\ UNCHANGED <<config, midi_vars, ring, resample_scratch, last_avg, buffer_out, consumed, ops,
                   lastOp, written>>

\* strategy None or Never: one push per sample of the local queue
SourcePass ==
    /\ kind = "source"
    /\ pc = "pass"
    /\ IF cb.i = Len(local_buffer)
       THEN /\ local_buffer' = <<>>
            /\ pc' = "ret"
            /\ UNCHANGED <<ring, cb, xruns, countedSinceOp>>
       ELSE IF ~RingFull
       THEN /\ ring' = Append(ring, local_buffer[cb.i + 1])
            /\ cb' = [cb EXCEPT !.i = @ + 1]
            /\ UNCHANGED <<pc, local_buffer, xruns, countedSinceOp>>
       ELSE /\ CleanUp(cb.i % channels, "ret")
            /\ local_buffer' = IF AlignCount(cb.i % channels) = 0 THEN <<>> ELSE local_buffer
            /\ UNCHANGED ring
    /\ UNCHANGED <<fixed, last_frames, resample_scratch, rolling_ring_avg, ring_integral,
                   last_avg, strategy, buffer_out>>

\* column channel_i of the scratch matrix after copying the first
\* new_sample_count frames of the local queue into it
ScratchColumn(column, queue, channel_i, new_sample_count) ==
    [r \in 1..SCRATCH_ROWS |->
        IF r <= new_sample_count THEN queue[(r - 1) * channels + channel_i + 1]
        ELSE column[r]]

\* strategy Resample: while the local queue holds new_sample_count frames,
\* interpolate and push one sample per channel, then drain those frames
SourceResample ==
    /\ kind = "source"
    /\ pc = "resample"
    /\ LET new_sample_count ==
               IF cb.channel_i = 0 THEN new_samples_needed(cb.ratio, cb.time) ELSE cb.k
       IN  IF cb.channel_i = 0 /\ Len(local_buffer) < new_sample_count * channels
           THEN /\ pc' = "ret"
                /\ UNCHANGED <<ring, cb, xruns, countedSinceOp, last_frames,
                               resample_scratch, local_buffer>>
           ELSE LET c == cb.channel_i + 1
                    column == ScratchColumn(resample_scratch[c], local_buffer,
                                            cb.channel_i, new_sample_count)
                    r == resample(cb.ratio, column, last_frames[c], cb.time)
                    last_channel == c = channels
                IN  IF new_sample_count > SCRATCH_ROWS
                    THEN \* resample_scratch[(i, channel_i)] panics at i = 4
                         /\ resample_scratch' = [resample_scratch EXCEPT ![c] = column]
                         /\ pc' = "oob"
                         /\ UNCHANGED <<ring, cb, xruns, countedSinceOp, last_frames,
                                        local_buffer>>
                    ELSE
                    /\ resample_scratch' = [resample_scratch EXCEPT ![c] = column]
                    /\ last_frames' = [last_frames EXCEPT ![c] = r.last]
                    /\ IF ~RingFull
                       THEN /\ ring' = Append(ring, r.out)
                            /\ cb' = [cb EXCEPT !.time = r.time,
                                                !.frame_time =
                                                    IF cb.channel_i = 0 THEN cb.time ELSE @,
                                                !.k = IF last_channel THEN 0
                                                      ELSE new_sample_count,
                                                !.channel_i = IF last_channel THEN 0
                                                              ELSE @ + 1]
                            /\ local_buffer' =
                                 IF last_channel
                                 THEN SubSeq(local_buffer, channels * new_sample_count + 1,
                                             Len(local_buffer))
                                 ELSE local_buffer
                            /\ UNCHANGED <<pc, xruns, countedSinceOp>>
                       ELSE /\ CleanUp(cb.channel_i, "ret")
                            /\ local_buffer' =
                                 IF AlignCount(cb.channel_i) = 0 THEN <<>> ELSE local_buffer
                            /\ UNCHANGED ring
    /\ UNCHANGED <<fixed, rolling_ring_avg, ring_integral, last_avg, strategy, buffer_out>>

\* preserve_alignment: one successful push of a zero; a push that finds the
\* ring full sleeps and tries again, which changes nothing.  After the last
\* one clean_up counts the xrun and clears the local queue.
SourceBurn ==
    /\ kind = "source"
    /\ pc = "burn"
    /\ ~RingFull
    /\ ring' = Append(ring, Silence)
    /\ IF cb.align = 1
       THEN /\ xruns' = handle_xrun(xruns, cb.measure_xruns)
            /\ countedSinceOp' = Counted(countedSinceOp, cb.measure_xruns)
            /\ local_buffer' = <<>>
            /\ pc' = cb.after
            /\ cb' = [cb EXCEPT !.align = 0, !.after = "idle", !.burned = @ + 1]
       ELSE /\ cb' = [cb EXCEPT !.align = @ - 1, !.burned = @ + 1]
            /\ UNCHANGED <<pc, xruns, countedSinceOp, local_buffer>>
    /\ UNCHANGED <<fixed, last_frames, resample_scratch, rolling_ring_avg, ring_integral,
                   last_avg, strategy, buffer_out>>

\* input_samples returns
SourceReturn ==
    /\ kind = "source"
    /\ pc = "ret"
    /\ pc' = "idle"
    /\ cb' = CbIdle
    /\ entry' = [NoEntry EXCEPT !.seen = entry.seen]
    /\ UNCHANGED <<config, midi_vars, produced, consumed, calls, ops, lastOp, callsSinceOp, ring,
                   last_frames, resample_scratch, rolling_ring_avg, ring_integral,
                   last_avg, xruns, strategy, local_buffer, buffer_out, countedSinceOp,
                   written>>

\* the application thread pops a sample
ConsumerPop ==
    /\ kind = "source"
    /\ consumed < MaxConsumed
    /\ ~RingEmpty
    /\ ring' = Tail(ring)
    /\ consumed' = consumed + 1
    /\ entry' = IF pc \in {"idle", "panic", "oob"} THEN entry
                ELSE [entry EXCEPT !.interfered = TRUE]
    /\ UNCHANGED <<config, midi_vars, last_frames, resample_scratch, rolling_ring_avg, ring_integral,
                   last_avg, xruns, strategy, local_buffer, buffer_out, pc, cb, produced,
                   calls, ops, lastOp, callsSinceOp, countedSinceOp, written>>

SourceEnableCompensation ==
    kind = "source" /\ OperatorCall("enable", compensation_start_threshold, StrategyNone)

SourceDisableCompensation ==
    kind = "source" /\ OperatorCall("disable", 0, StrategyNever)

SourceAutoCompensation ==
    kind = "source" /\ OperatorCall("reset", 0, StrategyNone)

SourceCallback ==
    \/ \E frames \in FramesIn, measure_xruns \in BOOLEAN :
          SourceEnter(frames, measure_xruns)
    \/ SourcePass
    \/ SourceResample
    \/ SourceBurn
    \/ SourceReturn

SourceNext ==
    \/ SourceCallback
    \/ ConsumerPop
    \/ SourceEnableCompensation
    \/ SourceDisableCompensation
    \/ SourceAutoCompensation

SourceInit == Init /\ kind = "source"

SourceSpec == SourceInit /\ [][SourceNext]_vars

SinkCallback ==
    \/ \E frames \in FramesOut, measure_xruns \in BOOLEAN :
          SinkEnter(frames, measure_xruns)
    \/ SinkSeed
    \/ SinkDispatch
    \/ SinkPass
    \/ SinkResample
    \/ SinkBurn
    \/ SinkReturn

SinkNext ==
    \/ SinkCallback
    \/ ProducerPush
    \/ SinkEnableCompensation
    \/ SinkDisableCompensation
    \/ SinkResetCompensation

SinkInit == Init /\ kind = "sink"

SinkSpec == SinkInit /\ [][SinkNext]_vars

Next == SinkNext \/ SourceNext

Spec == Init /\ [][Next]_vars

\* the streams under PidSettings that let the ratio grow
WideInit == New({"sink", "source"}, {0}, WidePidChoices)

WideSpec == WideInit /\ [][Next]_vars

\* ------------------------------------------------ the controller alone
\* The ratio under the default PidSettings.  What the PID terms add up to
\* depends on the gains, the integral and the history of the occupancy; here
\* it is any of RawFactors, so that the ratio is driven as far as it can go.
RawFactors == {-3000000, 0, 3000000}

\* the arming branch of the controller
ControllerArm ==
    /\ pc = "idle"
    /\ strategy.tag = "None"
    /\ strategy' = Resample(Micro, 0)
    /\ ring_integral' = 0
    /\ UNCHANGED <<config, midi_vars, ring, last_frames, resample_scratch, rolling_ring_avg,
                   last_avg, xruns, local_buffer, buffer_out, pc, cb, produced,
                   consumed, calls, ops, entry, lastOp, callsSinceOp, countedSinceOp,
                   written>>

\* the Resample branch of the controller, for the sum `raw` of the PID terms
ControllerRetune(raw) ==
    /\ pc = "idle"
    /\ strategy.tag = "Resample"
    /\ strategy' = [strategy EXCEPT !.resample_ratio = Retuned(@, Pow2(NewFactor(raw)))]
    /\ UNCHANGED <<config, midi_vars, ring, last_frames, resample_scratch, rolling_ring_avg,
                   ring_integral, last_avg, xruns, local_buffer, buffer_out, pc, cb,
                   produced, consumed, calls, ops, entry, lastOp, callsSinceOp,
                   countedSinceOp, written>>

ControllerNext ==
    \/ ControllerArm
    \/ \E raw \in RawFactors : ControllerRetune(raw)

\* the clamp and the lerp read neither the channel count nor the ring
ControllerInit == New({"sink"}, {0}, {DefaultPid}) /\ channels = 1

ControllerSpec == ControllerInit /\ [][ControllerNext]_vars

\* --------------------------------------- the controller under a steady ring
\* One channel; the other thread keeps the ring at the same level, so that
\* every callback finds the same slots() value.  A callback is taken whole
\* for what the controller reads and writes: the xrun check at its entry,
\* the controller step, the window, and the xrun its data path may count;
\* the samples it moves are left out.
FeedbackInit ==
    /\ kind \in {"sink", "source"}
    /\ channels = 1
    /\ ring_size \in (IF kind = "sink" THEN SinkRingSizes ELSE SourceRingSizes)
    /\ compensation_start_threshold = 1
    /\ pid_settings = FeedbackPid
    /\ \E level \in 0..ring_size : ring = [i \in 1..level |-> i]
    /\ last_frames = <<Zeros(FRAME_LOOKBACK)>>
    /\ resample_scratch = <<Zeros(SCRATCH_ROWS)>>
    /\ rolling_ring_avg = Zeros(ROLLING_AVG_LENGTH)
    /\ ring_integral = 0
    /\ last_avg = 0
    /\ xruns = 0
    /\ strategy = [tag |-> "None", resample_ratio |-> 0, time |-> 0]
    /\ local_buffer = <<>>
    /\ buffer_out = <<>>
    /\ pc = "idle"
    /\ cb = CbIdle
    /\ produced = 0
    /\ consumed = 0
    /\ calls = 0
    /\ ops = 0
    /\ entry = NoEntry
    /\ lastOp = "new"
    /\ callsSinceOp = 0
    /\ countedSinceOp = 0
    /\ written = <<>>
    /\ NoMidi

\* output_samples / input_samples; `failed` says whether a pop or a push of
\* its data path fails, which calls handle_xrun once more
FeedbackCallback(measure_xruns, failed) ==
    /\ calls < ROLLING_AVG_LENGTH + 1 + MaxRetunes
    /\ measure_xruns => xruns <= compensation_start_threshold
    /\ failed => measure_xruns
    /\ LET ring_slots == IF kind = "sink" THEN ReadSlots ELSE WriteSlots
           at_entry == IF kind = "sink" THEN ring_slots = ring_size
                       ELSE ring_slots < NEARLY_FULL
           x == IF at_entry THEN handle_xrun(xruns, measure_xruns) ELSE xruns
           run == IF kind = "sink" THEN SinkThresholdReached(x)
                  ELSE SourceThresholdReached(x)
           arming == run /\ Arms(strategy.tag)
           ctl == Controller
       IN  /\ xruns' = IF failed THEN handle_xrun(x, measure_xruns) ELSE x
           /\ ring_integral' =
                IF ~run THEN ring_integral ELSE IF arming THEN 0 ELSE ctl.integral
           /\ strategy' =
                IF arming THEN Resample(Micro, 0)
                ELSE IF run /\ strategy.tag = "Resample"
                THEN [strategy EXCEPT !.resample_ratio = Retuned(@, ctl.new_ratio)]
                ELSE strategy
           /\ last_avg' = IF arming /\ kind = "sink" THEN ctl.avg ELSE last_avg
           /\ rolling_ring_avg' = Rotated(rolling_ring_avg, ring_slots)
           /\ cb' = [CbIdle EXCEPT !.measure_xruns = measure_xruns,
                                   !.ring_slots = ring_slots,
                                   !.arming = arming,
                                   !.controlled = run,
                                   !.avg = IF run THEN ctl.avg ELSE 0,
                                   !.new_ratio = IF run THEN ctl.new_ratio ELSE 0]
    /\ entry' = [ring |-> ring, buffer |-> <<>>, xruns |-> xruns,
                 strategy |-> strategy, ring_integral |-> ring_integral,
                 interfered |-> FALSE, window |-> rolling_ring_avg,
                 lookback |-> last_frames,
                 seen |-> <<IF kind = "sink" THEN ReadSlots ELSE WriteSlots>>]
    /\ calls' = calls + 1
    /\ UNCHANGED <<config, midi_vars, ring, last_frames, resample_scratch, local_buffer,
                   buffer_out, pc, produced, consumed, ops, lastOp, callsSinceOp,
                   countedSinceOp, written>>

FeedbackNext == \E measure_xruns \in BOOLEAN, failed \in BOOLEAN :
                    FeedbackCallback(measure_xruns, failed)

FeedbackSpec == FeedbackInit /\ [][FeedbackNext]_vars

\* ------------------------------------------- the resample driver alone
\* One channel.  The input is the stream of samples 1, 2, 3, ...: the first
\* four are in the lookback, the next four wait in the scratch column.
DriverRatios ==
    {0, 1, 250000, 500000, 999999, 1000000, 1000001, 1500000, 2000000, 2750000,
     3000000}

DriverTimes == {0, 1, 500000, 999999}

DriverInit ==
    /\ kind = "sink"
    /\ channels = 1
    /\ ring_size \in SinkRingSizes
    /\ compensation_start_threshold = 0
    /\ pid_settings = DefaultPid
    /\ ring = <<>>
    /\ last_frames = <<[i \in 1..FRAME_LOOKBACK |-> i]>>
    /\ resample_scratch = <<[i \in 1..SCRATCH_ROWS |-> FRAME_LOOKBACK + i]>>
    /\ rolling_ring_avg = Zeros(ROLLING_AVG_LENGTH)
    /\ ring_integral = 0
    /\ last_avg = 0
    /\ xruns = 0
    /\ \E ratio \in DriverRatios, time \in DriverTimes : strategy = Resample(ratio, time)
    /\ local_buffer = <<>>
    /\ buffer_out = <<Stale>>
    /\ pc = "idle"
    /\ cb = CbIdle
    /\ produced = 0
    /\ consumed = 0
    /\ calls = 0
    /\ ops = 0
    /\ entry = NoEntry
    /\ lastOp = "new"
    /\ callsSinceOp = 0
    /\ countedSinceOp = 0
    /\ written = <<>>
    /\ NoMidi

\* one output sample: the driver runs on the lookback and the scratch column,
\* the samples it took are replaced by the next ones of the stream
DriverStep ==
    /\ calls < MaxDriverSteps
    /\ LET r == resample(strategy.resample_ratio, resample_scratch[1], last_frames[1],
                         strategy.time)
       IN  /\ buffer_out' = <<r.out>>
           /\ last_frames' = <<r.last>>
           /\ strategy' = [strategy EXCEPT !.time = r.time]
           /\ consumed' = consumed + r.taken
           /\ resample_scratch' =
                <<[i \in 1..SCRATCH_ROWS |-> FRAME_LOOKBACK + consumed + r.taken + i]>>
    /\ calls' = calls + 1
    /\ UNCHANGED <<config, midi_vars, ring, rolling_ring_avg, ring_integral, last_avg, xruns,
                   local_buffer, pc, cb, produced, ops, entry, lastOp, callsSinceOp,
                   countedSinceOp, written>>

DriverSpec == DriverInit /\ [][DriverStep]_vars

\* ------------------------------------------------------ the MIDI codec
\* One message is written with write_midi_bytes; its bytes arrive in the
\* queue in chunks, and parse_midi is called at any time.
MidiChannels == {0, 3, 15}
MidiData7 == {0, 66, 100, 127}
MidiData14 == {0, 127, 128, 8192, 16383}
MidiNibbles == {0, 9, 15}
SysExPayloads == {<<>>, <<0>>, <<125, 1, 2>>}

ChannelVoiceMessages ==
    [tag : {"NoteOff"}, channel : MidiChannels, note : MidiData7, velocity : MidiData7]
    \cup [tag : {"NoteOn"}, channel : MidiChannels, note : MidiData7, velocity : MidiData7]
    \cup [tag : {"Aftertouch"}, channel : MidiChannels, note : MidiData7,
          pressure : MidiData7]
    \cup [tag : {"ControlChange"}, channel : MidiChannels, controller : MidiData7,
          value : MidiData7]
    \cup [tag : {"ProgramChange"}, channel : MidiChannels, patch : MidiData7]
    \cup [tag : {"ChannelPressure"}, channel : MidiChannels, pressure : MidiData7]
    \cup [tag : {"PitchBend"}, channel : MidiChannels, pitch_bend : MidiData14]

SysCommonMessages ==
    {[tag |-> "QuarterFrame", time_fragment |-> Timecode(TimecodeKinds[type], value)] :
        type \in 1..8, value \in MidiNibbles}
    \cup [tag : {"SongPositionPointer"}, position : MidiData14]
    \cup [tag : {"SongSelect"}, song : MidiData7]
    \cup {[tag |-> "TuneRequest"]}

SysRtMessages == [tag : {"SysRt"}, msg : DOMAIN SysRtByte]

FixedLengthMessages == (ChannelVoiceMessages \cup SysCommonMessages) \cup SysRtMessages

SysExMessages == [tag : {"SysEx"}, id_and_data : SysExPayloads]

MidiInit ==
    /\ NewStream({"sink"}, {0}, {DefaultPid})
    /\ channels = 1
    /\ midi_message \in FixedLengthMessages \cup SysExMessages
    /\ midi_pending = write_midi_bytes(midi_message)
    /\ midi_buffer = <<>>
    /\ midi_result = Unparsed
    /\ midi_parsed = <<>>
    /\ midi_calls = 0
    /\ midi_chunks = 0
    /\ midi_entry = <<>>
    /\ NoIntermittent

\* the variables of the streams, which the codec does not touch
streams == <<config, ring, last_frames, resample_scratch, rolling_ring_avg, ring_integral,
             last_avg, xruns, strategy, local_buffer, buffer_out, pc, cb, produced,
             consumed, calls, ops, entry, lastOp, callsSinceOp, countedSinceOp, written>>

\* the call has come back
MidiReturned == midi_result.tag \in {"Unparsed", "None", "Some"}

\* the next `count` bytes of the message arrive in the queue
MidiAppend(count) ==
    /\ MidiReturned
    /\ count \in 1..Len(midi_pending)
    /\ midi_buffer' = midi_buffer \o SubSeq(midi_pending, 1, count)
    /\ midi_pending' = SubSeq(midi_pending, count + 1, Len(midi_pending))
    /\ midi_result' = Unparsed
    /\ midi_chunks' = midi_chunks + 1
    /\ UNCHANGED <<midi_message, midi_parsed, midi_calls, midi_entry, intermittent, streams>>

\* parse_midi(&mut buffer)
MidiParse ==
    /\ MidiReturned
    /\ midi_calls < MaxParses
    /\ LET call == parse_midi(midi_buffer)
       IN  /\ midi_result' = call.result
           /\ midi_buffer' = call.buffer
           /\ midi_parsed' = IF call.result.tag = "Some"
                             THEN Append(midi_parsed, call.result.data)
                             ELSE midi_parsed
    /\ midi_calls' = midi_calls + 1
    /\ midi_entry' = midi_buffer
    /\ UNCHANGED <<midi_message, midi_pending, midi_chunks, intermittent, streams>>

MidiNext ==
    \/ \E count \in 1..3 : MidiAppend(count)
    \/ MidiParse

MidiSpec == MidiInit /\ [][MidiNext]_vars

\* ------------------------------------------------- the parser on any bytes
\* The device delivers arbitrary bytes: data bytes, the status bytes of
\* three-, two- and one-byte messages, SysEx start and end, and the reserved
\* status bytes.
RawBytes == {66, 100, 144, 195, 240, 243, 244, 245, 246, 247, 250, 253}

RECURSIVE SeqsUpTo(_, _)
SeqsUpTo(set, len) ==
    IF len = 0 THEN {<<>>}
    ELSE LET shorter == SeqsUpTo(set, len - 1)
         IN  shorter \cup {Append(q, b) : q \in shorter, b \in set}

RawQueues == SeqsUpTo(RawBytes, MaxRawLen) \ {<<>>}

RawInit ==
    /\ NewStream({"sink"}, {0}, {DefaultPid})
    /\ channels = 1
    /\ midi_message = MidiNone
    /\ midi_pending \in RawQueues
    /\ midi_buffer = <<>>
    /\ midi_result = Unparsed
    /\ midi_parsed = <<>>
    /\ midi_calls = 0
    /\ midi_chunks = 0
    /\ midi_entry = <<>>
    /\ NoIntermittent

RawSpec == RawInit /\ [][MidiNext]_vars

\* ------------------------------------------------- the intermittent source
\* start_midir_source: the device callback hands each burst of bytes to
\* input_messages with the local time since start and the device timestamp;
\* the receiver of the out-channel may be dropped at any time.
SinceStarts == {0, 4, 6}
Timestamps == {0, 4, 9}

\* what the device emits: messages of three and one bytes, a SysEx, and the
\* reserved status byte 0xF4
DeviceItems ==
    {[tag |-> "NoteOn", channel |-> 0, note |-> 66, velocity |-> 100],
     [tag |-> "SysRt", msg |-> "Start"],
     [tag |-> "SysEx", id_and_data |-> <<125>>],
     [tag |-> "Stray", byte |-> 244]}

BytesOf(item) == IF item.tag = "Stray" THEN <<item.byte>> ELSE write_midi_bytes(item)

RECURSIVE StreamBytes(_)
StreamBytes(items) ==
    IF items = <<>> THEN <<>> ELSE BytesOf(Head(items)) \o StreamBytes(Tail(items))

IntermittentInit ==
    /\ NewStream({"sink"}, {0}, {DefaultPid})
    /\ channels = 1
    /\ midi_message = MidiNone
    /\ device_stream \in SeqsUpTo(DeviceItems, MaxStream) \ {<<>>}
    /\ midi_pending = StreamBytes(device_stream)
    /\ midi_buffer = <<>>
    /\ midi_result = Unparsed
    /\ midi_parsed = <<>>
    /\ midi_calls = 0
    /\ midi_chunks = 0
    /\ midi_entry = <<>>
    /\ relative = None
    /\ channel_out = "open"
    /\ sent = <<>>
    /\ invoked = <<>>
    /\ epoch = -1
    /\ last_call = NoCall

\* the last call came back (or there was none): the callback can run again
Callable == last_call.how \in {"idle", "returned"}

\* input_messages(messages_in, since_start, timestamp), messages_in being the
\* next `count` bytes of the device; midi_buffer is mapper.values_in
InputMessages(count, since_start, timestamp) ==
    /\ Callable
    /\ Len(invoked) < MaxInvocations
    /\ count \in 1..Len(midi_pending)
    /\ LET processed_timestamp ==
               IF relative # None THEN add_to(relative.data, timestamp) ELSE since_start
           call == Len(invoked) + 1
           open == channel_out = "open"
           loop == Forward(midi_buffer \o SubSeq(midi_pending, 1, count), sent, open,
                           processed_timestamp, call)
       IN  /\ invoked' = Append(invoked, timestamp)
           /\ epoch' = IF relative = None THEN since_start ELSE epoch
           /\ IF processed_timestamp < 0
              THEN \* relative.add_to(timestamp) panics
                   /\ last_call' = [how |-> "underflow", hung_up |-> ~open, sends |-> 0,
                                    parsed |-> 0]
                   /\ UNCHANGED <<relative, midi_buffer, midi_pending, sent>>
              ELSE /\ relative' = IF relative = None THEN Some(sub(timestamp, since_start))
                                  ELSE relative
                   /\ midi_pending' = SubSeq(midi_pending, count + 1, Len(midi_pending))
                   /\ midi_buffer' = loop.values_in
                   /\ sent' = loop.sent
                   /\ last_call' = [how |-> loop.how, hung_up |-> ~open,
                                    sends |-> Len(loop.sent) - Len(sent),
                                    parsed |-> loop.parsed]
    /\ UNCHANGED <<midi_message, midi_result, midi_parsed, midi_calls, midi_chunks,
                   midi_entry, channel_out, device_stream, streams>>

\* the receiving end of the out-channel is dropped
DropReceiver ==
    /\ Callable
    /\ channel_out = "open"
    /\ channel_out' = "closed"
    /\ UNCHANGED <<midi_message, midi_pending, midi_buffer, midi_result, midi_parsed,
                   midi_calls, midi_chunks, midi_entry, relative, sent, device_stream,
                   invoked, epoch, last_call, streams>>

IntermittentNext ==
    \/ \E count \in 1..MaxChunk, since_start \in SinceStarts, timestamp \in Timestamps :
           InputMessages(count, since_start, timestamp)
    \/ DropReceiver

IntermittentSpec == IntermittentInit /\ [][IntermittentNext]_vars

\* ------------------------------------------------- the interpolator alone
\* hermite_interpolate on four samples of any sign and size, at the left
\* node, in the middle and just before the right node
HermiteSamples == {-100000, -1, 0, 7, 100000}
HermiteTimes == {0, 500000, 999000}

HermiteInit ==
    /\ kind = "sink"
    /\ channels = 1
    /\ ring_size \in SinkRingSizes
    /\ compensation_start_threshold = 0
    /\ pid_settings = DefaultPid
    /\ ring = <<>>
    /\ \E row \in [1..FRAME_LOOKBACK -> HermiteSamples] : last_frames = <<row>>
    /\ resample_scratch = <<Zeros(SCRATCH_ROWS)>>
    /\ rolling_ring_avg = Zeros(ROLLING_AVG_LENGTH)
    /\ ring_integral = 0
    /\ last_avg = 0
    /\ xruns = 0
    /\ \E time \in HermiteTimes : strategy = Resample(Micro, time)
    /\ local_buffer = <<>>
    /\ buffer_out = <<Stale>>
    /\ pc = "idle"
    /\ cb = CbIdle
    /\ produced = 0
    /\ consumed = 0
    /\ calls = 0
    /\ ops = 0
    /\ entry = NoEntry
    /\ lastOp = "new"
    /\ callsSinceOp = 0
    /\ countedSinceOp = 0
    /\ written = <<>>
    /\ NoMidi

\* buffer_out[0] = hermite_interpolate(last[0], last[1], last[2], last[3], time)
HermiteStep ==
    /\ calls = 0
    /\ buffer_out' = <<hermite_interpolate(last_frames[1][1], last_frames[1][2],
                                           last_frames[1][3], last_frames[1][4],
                                           strategy.time)>>
    /\ calls' = 1
    /\ UNCHANGED <<config, midi_vars, ring, last_frames, resample_scratch, rolling_ring_avg,
                   ring_integral, last_avg, xruns, strategy, local_buffer, pc, cb, produced,
                   consumed, ops, entry, lastOp, callsSinceOp, countedSinceOp, written>>

HermiteSpec == HermiteInit /\ [][HermiteStep]_vars

\* ------------------------------------------------- a stream of messages
\* The queue holds some bytes without the status bit and then the bytes of
\* a sequence of well-formed fixed-length messages, one of each length and
\* class; parse_midi is called again and again.
FramedMessages ==
    {[tag |-> "NoteOn", channel |-> 0, note |-> 66, velocity |-> 100],
     [tag |-> "ProgramChange", channel |-> 15, patch |-> 127],
     [tag |-> "PitchBend", channel |-> 3, pitch_bend |-> 8192],
     [tag |-> "QuarterFrame", time_fragment |-> Timecode("HoursHigh", 9)],
     [tag |-> "SongPositionPointer", position |-> 16383],
     [tag |-> "SongSelect", song |-> 0],
     [tag |-> "TuneRequest"],
     [tag |-> "SysRt", msg |-> "Reset"]}

JunkPrefixes == {<<>>, <<0>>, <<66, 127>>}

FramingInit ==
    /\ NewStream({"sink"}, {0}, {DefaultPid})
    /\ channels = 1
    /\ midi_message = MidiNone
    /\ midi_pending = <<>>
    /\ device_stream \in SeqsUpTo(FramedMessages, MaxStream) \ {<<>>}
    /\ \E junk \in JunkPrefixes : midi_buffer = junk \o StreamBytes(device_stream)
    /\ midi_result = Unparsed
    /\ midi_parsed = <<>>
    /\ midi_calls = 0
    /\ midi_chunks = 0
    /\ midi_entry = <<>>
    /\ relative = None
    /\ channel_out = "open"
    /\ sent = <<>>
    /\ invoked = <<>>
    /\ epoch = -1
    /\ last_call = NoCall

FramingSpec == FramingInit /\ [][MidiParse]_vars

\* ------------------------------------------------- DeltaDuration alone
\* sub(a, b) and then add_to(b) on the result, for two durations a and b
\* (kept in `invoked`); the delta is kept in `relative`, the sum in `epoch`.
Durations == 0..9

DeltaInit ==
    /\ NewStream({"sink"}, {0}, {DefaultPid})
    /\ channels = 1
    /\ midi_message = MidiNone
    /\ midi_pending = <<>>
    /\ midi_buffer = <<>>
    /\ midi_result = Unparsed
    /\ midi_parsed = <<>>
    /\ midi_calls = 0
    /\ midi_chunks = 0
    /\ midi_entry = <<>>
    /\ relative = None
    /\ channel_out = "open"
    /\ sent = <<>>
    /\ device_stream = <<>>
    /\ \E a \in Durations, b \in Durations : invoked = <<a, b>>
    /\ epoch = -1
    /\ last_call = NoCall

\* DeltaDuration::sub(a, b)
DeltaSub ==
    /\ relative = None
    /\ relative' = Some(sub(invoked[1], invoked[2]))
    /\ UNCHANGED <<midi_message, midi_pending, midi_buffer, midi_result, midi_parsed,
                   midi_calls, midi_chunks, midi_entry, channel_out, sent, device_stream,
                   invoked, epoch, last_call, streams>>

\* delta.add_to(b)
DeltaAddTo ==
    /\ relative # None
    /\ last_call = NoCall
    /\ epoch' = add_to(relative.data, invoked[2])
    /\ last_call' = [NoCall EXCEPT !.how = IF epoch' < 0 THEN "underflow" ELSE "returned"]
    /\ UNCHANGED <<midi_message, midi_pending, midi_buffer, midi_result, midi_parsed,
                   midi_calls, midi_chunks, midi_entry, relative, channel_out, sent,
                   device_stream, invoked, streams>>

DeltaNext == DeltaSub \/ DeltaAddTo

DeltaSpec == DeltaInit /\ [][DeltaNext]_vars

\* ================================================================ claims
\* the callback has done all its work and is about to return
Returned == pc = "ret"

\* C1: whenever output_samples has returned, the number of samples popped
\* from the ring since construction (all that was pushed and is no longer in
\* the ring) is a multiple of channels.
C1_SinkAligned ==
    (kind = "sink" /\ pc \in {"ret", "idle"}) => (produced - Len(ring)) % channels = 0

\* a stereo callback returns after a pop failed at channel 1 and the guard
\* burned one sample
C1_Witness ==
    kind = "sink" /\ Returned /\ channels = 2 /\ cb.failed = 1 /\ cb.burned = 1

\* C2: whenever input_samples has returned, the number of samples pushed into
\* the ring since construction (all that was popped or is still in the ring)
\* is a multiple of channels, and after a push failed at channel index i the
\* guard pushed exactly (channels - i) mod channels samples, all zero.
C2_SourceAligned ==
    (kind = "source" /\ pc \in {"ret", "idle"}) =>
        /\ (consumed + Len(ring)) % channels = 0
        /\ (Returned /\ cb.failed >= 0) =>
              /\ cb.burned = (channels - cb.failed) % channels
              /\ Len(ring) >= cb.burned =>
                    \A j \in 1..cb.burned : ring[Len(ring) - j + 1] = Silence

\* a stereo callback returns after a push failed at channel 1 and the guard
\* pushed one zero
C2_Witness ==
    kind = "source" /\ Returned /\ channels = 2 /\ cb.failed = 1 /\ cb.burned = 1

\* C3: the callback never waits for the other thread: while a callback runs
\* it can always take its next step on its own, so it returns after a bounded
\* number of steps even if the other thread never touches the ring again.
C3_CallbackNeverWaits ==
    pc \notin {"idle", "panic", "oob"} => ENABLED (SinkCallback \/ SourceCallback)

\* C4, as claimed: a call of output_samples entered in strategy None or Never
\* with n < |buffer_out| samples in the ring, n a multiple of channels, the
\* ring not full and no push during the call returns with the n samples in
\* buffer_out[0..n) in FIFO order, the other slots as they were, xruns one
\* higher when measure_xruns is true, and the ring empty.
C4_Pre ==
    /\ kind = "sink"
    /\ Returned
    /\ entry.strategy.tag \in {"None", "Never"}
    /\ Len(entry.ring) < Len(buffer_out)
    /\ Len(entry.ring) % channels = 0
    /\ Len(entry.ring) < ring_size
    /\ ~entry.interfered

C4_Post ==
    LET n == Len(entry.ring)
    IN  /\ SubSeq(buffer_out, 1, n) = entry.ring
        /\ \A j \in (n + 1)..Len(buffer_out) : buffer_out[j] = entry.buffer[j]
        /\ cb.measure_xruns => xruns = entry.xruns + 1
        /\ ring = <<>>

C4_Original == C4_Pre => C4_Post

\* the call does not arm resampling
C4_NoArming ==
    entry.strategy.tag = "Never" \/ entry.xruns < compensation_start_threshold

\* C4, amended: the same, for a call that does not arm resampling (entered in
\* strategy Never, or in None with xruns below compensation_start_threshold).
C4_Underrun == (C4_Pre /\ C4_NoArming) => C4_Post

\* one stereo frame in the ring, a buffer of two frames, xruns measured
C4_Witness ==
    /\ C4_Pre
    /\ C4_NoArming
    /\ channels = 2
    /\ Len(entry.ring) = 2
    /\ cb.measure_xruns
    /\ xruns = entry.xruns + 1

\* output_samples returns after a pop of its output loop failed
C5_Underran == kind = "sink" /\ Returned /\ cb.failed >= 0

\* the slots the output loop has filled
C5_Filled == IF strategy.tag = "Resample" THEN cb.frame_i * channels ELSE cb.i

\* C5, as claimed: on a sink underrun every slot that could not be filled
\* from the ring holds silence (0.0) when the call returns.
C5_Original ==
    C5_Underran => \A j \in (C5_Filled + 1)..Len(buffer_out) : buffer_out[j] = Silence

\* C5, amended: on a sink underrun every slot that could not be filled from
\* the ring holds the value it had before the call; the call returns normally.
C5_RemainderUntouched ==
    C5_Underran =>
        \A j \in (C5_Filled + 1)..Len(buffer_out) : buffer_out[j] = entry.buffer[j]

\* a pass-through call filled one slot of two and underran
C5_Witness ==
    C5_Underran /\ strategy.tag = "None" /\ cb.i = 1 /\ Len(buffer_out) = 2

\* xruns at the threshold check of the running output_samples: the entry
\* value, plus one if the ring was full and xruns are measured
C6_XrunsAtCheck ==
    entry.xruns + (IF Len(entry.ring) = ring_size /\ cb.measure_xruns THEN 1 ELSE 0)

C7_EnableForcesResample ==
    (/\ kind = "source"
     /\ Returned
     /\ lastOp = "enable"
     /\ callsSinceOp = 1
     /\ cb.frames >= 3
     /\ cb.ring_slots >= NEARLY_FULL) => strategy.tag = "Resample"

\* C8: a step of a callback leaves the strategy's case alone or takes None
\* to Resample{1.0, 0.0}; None and Never are entered by operator calls only.
C8_StrategyTransitions ==
    [][/\ (pc # "idle" \/ pc' # "idle") =>
            \/ strategy'.tag = strategy.tag
            \/ strategy.tag = "None" /\ strategy' = Resample(Micro, 0)
       /\ (strategy'.tag # strategy.tag /\ strategy'.tag \in {"None", "Never"}) =>
            ops' = ops + 1]_vars

\* after disable_compensation a callback returns still in Never although it
\* has counted xruns up to the threshold
C8_Witness ==
    /\ Returned
    /\ lastOp = "disable"
    /\ strategy.tag = "Never"
    /\ countedSinceOp >= 1
    /\ countedSinceOp >= compensation_start_threshold
    /\ xruns > entry.xruns

\* C9: after reset_compensation / auto_compensation the strategy is None and
\* xruns is 0; from then on xruns is the number of xruns the callbacks have
\* counted, and the strategy is None as long as that is below
\* compensation_start_threshold.
C9_ResetToAuto ==
    lastOp = "reset" =>
        /\ xruns = countedSinceOp
        /\ callsSinceOp = 0 => strategy.tag = "None"
        /\ countedSinceOp < compensation_start_threshold => strategy.tag = "None"

\* the first callback after a reset, with the threshold at 1, underran
\* without counting it and returns in None
C9_Witness ==
    /\ Returned
    /\ lastOp = "reset"
    /\ callsSinceOp = 1
    /\ compensation_start_threshold = 1
    /\ countedSinceOp = 0
    /\ cb.failed >= 0
    /\ strategy.tag = "None"

\* C10: a callback run with measure_xruns = false leaves xruns as it found
\* it, and if it was entered in None below the threshold it stays in None.
C10_StartupWindow ==
    (pc # "idle" /\ ~cb.measure_xruns) =>
        /\ xruns = entry.xruns
        /\ (entry.strategy.tag = "None" /\ entry.xruns < compensation_start_threshold)
              => strategy.tag = "None"

\* an unmeasured call underran one xrun short of the threshold
C10_Witness ==
    /\ Returned
    /\ ~cb.measure_xruns
    /\ cb.failed >= 0
    /\ entry.xruns + 1 = compensation_start_threshold
    /\ strategy.tag = "None"

\* the channel of the n-th sample the producer pushed: it pushes whole frames
\* sample by sample
C11_ChannelOf(n) == (n - 1) % channels

\* C11: under every interleaving of pushes and callbacks, what pass-through
\* stores in output buffers are samples the producer pushed, in the order it
\* pushed them, none twice, each at an index congruent to its channel modulo
\* channels; and when every sample popped so far was stored (no pop failed,
\* nothing was burned), the stores are exactly the first pushed samples.
C11_PassThroughOrder ==
    kind = "sink" =>
        /\ \A j \in 1..Len(written) :
              /\ written[j].sample \in 1..produced
              /\ written[j].index % channels = C11_ChannelOf(written[j].sample)
        /\ \A j \in 1..(Len(written) - 1) : written[j].sample < written[j + 1].sample
        /\ Len(written) = produced - Len(ring) =>
              \A j \in 1..Len(written) : written[j].sample = j

\* two stereo pass-through calls: the first lost a sample to the alignment
\* guard, the second stored a frame that was pushed while it ran
C11_Witness ==
    /\ kind = "sink"
    /\ channels = 2
    /\ Returned
    /\ calls = 2
    /\ entry.interfered
    /\ Len(written) = 3
    /\ written[1].sample = 1
    /\ written[3] = [index |-> 1, sample |-> 4]

\* C12: when output_samples returns in Resample having produced at least one
\* output frame, the time stored in the strategy is the time the resample
\* driver returned for the last frame it produced.
C12_TimeCarried ==
    (kind = "sink" /\ Returned /\ strategy.tag = "Resample" /\ cb.frame_i >= 1) =>
        strategy.time = cb.time

\* C13: while input_samples resamples a frame, every channel after the first
\* is interpolated at the time the first channel was interpolated at: time is
\* advanced once per output frame, after all its channels.
C13_OneTimePerFrame ==
    (kind = "source" /\ pc = "resample" /\ cb.channel_i > 0) => cb.time = cb.frame_time

\* C14: a callback entered in Resample whose controller step ran returns
\* with the integral increased by error = avg - 0.5, the ratio replaced by
\* lerp(ratio, 2^clamp(factor), factor_last_interp), and last_avg equal to the
\* avg of this step.
C14_ArmedStep ==
    (Returned /\ entry.strategy.tag = "Resample" /\ cb.controlled) =>
        /\ ring_integral = entry.ring_integral + (cb.avg - (Micro \div 2))
        /\ strategy.resample_ratio =
              lerp(entry.strategy.resample_ratio, cb.new_ratio,
                   pid_settings.factor_last_interp)
        /\ last_avg = cb.avg

\* the same without last_avg: what the Armed step does do
C14_IntegralAndRatio ==
    (Returned /\ entry.strategy.tag = "Resample" /\ cb.controlled) =>
        /\ ring_integral = entry.ring_integral + (cb.avg - (Micro \div 2))
        /\ strategy.resample_ratio =
              lerp(entry.strategy.resample_ratio, cb.new_ratio,
                   pid_settings.factor_last_interp)

\* C15: with the default PidSettings, in every state with strategy Resample
\* the ratio lies in [2^-0.2, 2^0.2], which is within [0.87, 1.15], whatever
\* the PID terms add up to.
C15_RatioBound ==
    (pid_settings = DefaultPid /\ strategy.tag = "Resample") =>
        /\ Pow2(DefaultPid.min_factor) <= strategy.resample_ratio
        /\ strategy.resample_ratio <= Pow2(DefaultPid.max_factor)
        /\ 870000 <= strategy.resample_ratio
        /\ strategy.resample_ratio <= 1150000

\* the ratio has come down from 1.0 all the way to 2^-0.2
C15_Witness ==
    /\ pid_settings = DefaultPid
    /\ strategy.tag = "Resample"
    /\ strategy.resample_ratio = Pow2(DefaultPid.min_factor)

\* ratios in [0, 1.5] and times in [0, 1), at the ends and around the steps
\* of floor(t + ratio)
C16_Ratios == {0, 1, 499999, 500000, 999999, 1000000, 1000001, 1499999, 1500000}

C16_Times == {0, 1, 499999, 500000, 500001, 999999}

\* new_samples_needed is 0, 1 or 2 for the ratios in [0, 1.5] and times in [0, 1)
C16_Needed ==
    /\ \A r \in C16_Ratios, t \in C16_Times : new_samples_needed(r, t) \in {0, 1, 2}
    /\ (pc = "resample" /\ cb.ratio <= 1500000) =>
          new_samples_needed(cb.ratio, cb.time) \in {0, 1, 2}

\* C16, as claimed: new_samples_needed is in {0, 1, 2} for ratio in [0, 1.5]
\* and t in [0, 1), and the row index used to store samples in the scratch
\* matrix is in bounds for every reachable ratio and time.
C16_Original == C16_Needed /\ pc # "oob"

\* C16, amended: new_samples_needed is in {0, 1, 2} for ratio in [0, 1.5] and
\* t in [0, 1), and the row index used to store samples in the scratch matrix
\* is in bounds as long as PidSettings.max_factor is at most 2.0 (ratio at
\* most 4, at most 4 new samples).
C16_RowsInBounds ==
    /\ C16_Needed
    /\ pid_settings.max_factor <= 2 * Micro =>
          /\ pc # "oob"
          /\ pc = "resample" => new_samples_needed(cb.ratio, cb.time) <= SCRATCH_ROWS

\* the sink, with a ratio above 1.5, has stored two new samples per channel
\* in rows 0 and 1 of the scratch matrix
C16_Witness ==
    /\ kind = "sink"
    /\ pc = "resample"
    /\ pid_settings.max_factor <= 2 * Micro
    /\ cb.ratio > 1500000
    /\ new_samples_needed(cb.ratio, cb.time) = 2
    /\ cb.sample_i = 2

\* C17: for one output sample with ratio r and time t in [0, 1) the driver
\* consumes exactly k = floor(t + r) input samples, leaves in the lookback the
\* last four of (old lookback, then the k consumed samples in order), and
\* returns the time t + r - k, which is in [0, 1) again.
C17_DriverStep ==
    [][DriverStep =>
         LET r == strategy.resample_ratio
             t == strategy.time
             k == (t + r) \div Micro
         IN  /\ consumed' = consumed + k
             /\ last_frames'[1] =
                  SubSeq(last_frames[1] \o resample_scratch[1], k + 1, k + FRAME_LOOKBACK)
             /\ strategy'.time = (t + r) - (k * Micro)
             /\ 0 <= strategy'.time
             /\ strategy'.time < Micro]_vars

\* ratio 2.0 at time 0.5: two samples consumed, the lookback holds samples
\* 3..6, the time is 0.5 again
C17_Witness ==
    /\ calls = 1
    /\ strategy = Resample(2000000, 500000)
    /\ consumed = 2
    /\ last_frames = <<(<<3, 4, 5, 6>>)>>

\* the whole message arrived in one chunk and parse_midi was called once,
\* after it
C18_ParsedWhole ==
    /\ midi_chunks = 1
    /\ midi_pending = <<>>
    /\ midi_calls = 1
    /\ midi_result # Unparsed

\* C18: for every well-formed channel-voice, SysCommon and SysRt message m,
\* parse_midi on a queue holding exactly the bytes of write_midi_bytes(m)
\* returns Some(m) and leaves the queue empty; NoteOn{0, 66, 100} is written
\* as [0x90, 0x42, 0x64] and PitchBend{3, 8192} as [0xE3, 0x00, 0x40].
C18_FixedRoundTrip ==
    /\ (midi_message \in FixedLengthMessages /\ C18_ParsedWhole) =>
          (midi_result = Some(midi_message) /\ midi_buffer = <<>>)
    /\ write_midi_bytes([tag |-> "NoteOn", channel |-> 0, note |-> 66, velocity |-> 100])
          = <<144, 66, 100>>
    /\ write_midi_bytes([tag |-> "PitchBend", channel |-> 3, pitch_bend |-> 8192])
          = <<227, 0, 64>>

\* PitchBend{3, 8192} has gone through the writer and the parser
C18_Witness ==
    /\ C18_ParsedWhole
    /\ midi_message = [tag |-> "PitchBend", channel |-> 3, pitch_bend |-> 8192]
    /\ midi_result = Some(midi_message)
    /\ midi_buffer = <<>>

\* C19: for every payload of bytes without the status bit, parse_midi on a
\* queue holding 0xF0, the payload, 0xF7 returns Some(SysEx{payload}) and
\* leaves the queue empty, and write_midi_bytes of that message yields those
\* bytes.
C19_SysExRoundTrip ==
    /\ (midi_message \in SysExMessages /\ C18_ParsedWhole) =>
          (midi_result = Some(midi_message) /\ midi_buffer = <<>>)
    /\ write_midi_bytes([tag |-> "SysEx", id_and_data |-> <<125, 1, 2>>])
          = <<240, 125, 1, 2, 247>>

\* the bytes of the message that have arrived so far
C20_Arrived ==
    LET bytes == write_midi_bytes(midi_message)
    IN  SubSeq(bytes, 1, Len(bytes) - Len(midi_pending))

\* C20: while a fixed-length message is incomplete in the queue parse_midi
\* returns None and leaves the status byte and the data bytes received so far
\* in the queue; however the bytes are split into chunks, with parse_midi
\* called after the chunks, the messages returned are the same as for the
\* whole stream at once: the message, once, when its last byte is there.
C20_Incremental ==
    midi_message \in FixedLengthMessages =>
        /\ MidiReturned
        /\ midi_pending # <<>> =>
              /\ midi_parsed = <<>>
              /\ midi_result # Unparsed => (midi_result = None /\ midi_buffer = C20_Arrived)
        /\ (midi_pending = <<>> /\ midi_result # Unparsed) => midi_parsed = <<midi_message>>
        /\ midi_parsed \in {<<>>, <<midi_message>>}

\* a three-byte message arrived byte by byte, with a parse_midi call after
\* each byte: None, None, then the message
C20_Witness ==
    /\ midi_message = [tag |-> "ControlChange", channel |-> 15, controller |-> 127,
                       value |-> 66]
    /\ midi_chunks = 3
    /\ midi_calls = 3
    /\ midi_parsed = <<midi_message>>
    /\ midi_buffer = <<>>

\* the last parse_midi call found a reserved or stray status byte at the head
\* of the queue
C21_ReservedFirst ==
    /\ midi_result # Unparsed
    /\ midi_entry # <<>>
    /\ Head(midi_entry) \in {244, 245, 253, 247}

\* C21: when the queue starts with 0xF4, 0xF5, 0xFD or a lone 0xF7,
\* parse_midi removes exactly that one byte, returns None and leaves every
\* following byte in the queue (so a complete message right after it is
\* still whole for the next call).
C21_ReservedOneByte ==
    C21_ReservedFirst => (midi_result = None /\ midi_buffer = Tail(midi_entry))

\* C22: parse_midi is total: on every finite byte queue the call comes back
\* with Some or None; no pop of an empty queue is unwrapped and the recursion
\* of prep_message ends.
C22_Total == midi_result.tag \in {"Unparsed", "None", "Some"}

\* the last call found 0xF0, data bytes, and then a status byte other than
\* 0xF7: the index of that status byte in the queue (0 if the queue is not of
\* that shape)
C23_Abort ==
    IF midi_result # Unparsed /\ Len(midi_entry) >= 2 /\ Head(midi_entry) = 240
    THEN LET statuses == {i \in 2..Len(midi_entry) : midi_entry[i] >= 128}
             first == CHOOSE i \in statuses : \A other \in statuses : i <= other
         IN  IF statuses # {} /\ midi_entry[first] # 247 THEN first ELSE 0
    ELSE 0

\* C23: on 0xF0, data bytes, then a status byte S other than 0xF7, parse_midi
\* discards 0xF0 and the data bytes and parses the message that starts at S
\* (returned if complete, None with S kept if not); no SysEx is reported.
C23_AbortedSysEx ==
    C23_Abort > 0 =>
        LET from_s == parse_midi(SubSeq(midi_entry, C23_Abort, Len(midi_entry)))
        IN  /\ midi_result = from_s.result
            /\ midi_buffer = from_s.buffer
            /\ ~(midi_result.tag = "Some" /\ midi_result.data.tag = "SysEx")

\* C24: with ss0 and ts0 the since_start and the device timestamp of the
\* first invocation, every message forwarded by an invocation with device
\* timestamp ts >= ts0 carries since_start = ss0 + (ts - ts0).
C24_Normalised ==
    \A i \in 1..Len(sent) :
        invoked[sent[i].call] >= invoked[1] =>
            sent[i].since_start = epoch + (invoked[sent[i].call] - invoked[1])

\* the device timestamps of the invocations so far do not decrease
C25_TimestampsOrdered ==
    \A i \in 1..Len(invoked), j \in 1..Len(invoked) : i <= j => invoked[i] <= invoked[j]

\* C25: if the device timestamps of successive invocations are
\* non-decreasing, the since_start values of the TimedValues sent are
\* non-decreasing in send order.
C25_MonotonicEpoch ==
    C25_TimestampsOrdered =>
        \A i \in 1..Len(sent), j \in 1..Len(sent) :
            i <= j => sent[i].since_start <= sent[j].since_start

\* the items of the device's stream whose bytes have all been received, and
\* the bytes received of the item after them
RECURSIVE C26_Split(_, _)
C26_Split(items, received) ==
    IF items = <<>> \/ Len(BytesOf(Head(items))) > received
    THEN [whole |-> <<>>,
          partial |-> IF items = <<>> THEN <<>>
                      ELSE SubSeq(BytesOf(Head(items)), 1, received)]
    ELSE LET rest == C26_Split(Tail(items), received - Len(BytesOf(Head(items))))
         IN  [rest EXCEPT !.whole = <<Head(items)>> \o @]

C26_Received ==
    C26_Split(device_stream, Len(StreamBytes(device_stream)) - Len(midi_pending))

\* C26: with the out-channel open, after input_messages returns every
\* complete message in the bytes received so far has been sent exactly once,
\* in stream order, and the queue holds at most the bytes of one incomplete
\* trailing message.
C26_AllForwarded ==
    (channel_out = "open" /\ last_call.how = "returned") =>
        /\ [i \in 1..Len(sent) |-> sent[i].value]
              = SelectSeq(C26_Received.whole, LAMBDA item : item.tag # "Stray")
        /\ midi_buffer = C26_Received.partial

\* C27: once the receiver of the out-channel is dropped, every
\* input_messages call returns normally (no panic), sends nothing, and stops
\* parsing at the first message whose send fails.
C27_HangUp ==
    last_call.hung_up =>
        (last_call.how = "returned" /\ last_call.sends = 0 /\ last_call.parsed <= 1)

\* C28: input_samples of StreamSource never panics, in any reachable state
\* (the call that arms resampling included) and for inputs of any whole
\* number of frames, 0, 1 and 2 included; an xrun is only counted.
C28_SourceNoPanic == kind = "source" => pc \notin {"panic", "oob"}

\* C29: for all sample values x0, x1, x2, x3,
\* hermite_interpolate(x0, x1, x2, x3, t = 0) returns exactly x1.
C29_LeftNode ==
    (calls = 1 /\ strategy.time = 0) => buffer_out = <<last_frames[1][2]>>

\* the interpolator has run at t = 0 on four different samples
C29_Witness ==
    /\ calls = 1
    /\ strategy.time = 0
    /\ last_frames = <<(<<-100000, 7, 100000, -1>>)>>
    /\ buffer_out = <<7>>

\* the last callback ran the controller in state Resample
C31_Retuned ==
    /\ cb.controlled
    /\ ~cb.arming
    /\ entry.strategy.tag = "Resample"
    /\ strategy.tag = "Resample"

\* the ring has held `level` samples at every callback since arming and for a
\* whole window before: the window average is the same now as at arming
C31_Steady(level) ==
    /\ kind = "sink"
    /\ C31_Retuned
    /\ ReadSlots = level
    /\ \A i \in 1..ROLLING_AVG_LENGTH : rolling_ring_avg[i] = level
    /\ last_avg = cb.avg

C32_SourceNegativeFeedback ==
    (kind = "source" /\ C31_Retuned) =>
        /\ 2 * WriteSlots < ring_size => strategy.resample_ratio > Micro
        /\ 2 * WriteSlots > ring_size => strategy.resample_ratio < Micro

\* C33: for every sequence m1..mn of well-formed fixed-length messages with
\* bytes without the status bit before m1, repeated parse_midi calls on the
\* concatenation return Some(m1), ..., Some(mn) in that order and then None
\* with the queue empty; each successful call consumes exactly the leading
\* junk and the bytes of one message.
C33_Framing ==
    midi_calls >= 1 =>
        LET n == Len(device_stream)
            k == Min(midi_calls, n)
        IN  /\ midi_parsed = SubSeq(device_stream, 1, k)
            /\ midi_buffer = StreamBytes(SubSeq(device_stream, k + 1, n))
            /\ midi_result = IF midi_calls <= n THEN Some(device_stream[midi_calls])
                             ELSE None

\* the first call skipped two junk bytes and returned the first of two
\* messages, leaving the bytes of the second
C33_Witness ==
    /\ midi_calls = 1
    /\ Len(device_stream) = 2
    /\ midi_entry = <<66, 127>> \o StreamBytes(device_stream)
    /\ device_stream[1].tag = "PitchBend"
    /\ midi_result = Some(device_stream[1])
    /\ midi_buffer = BytesOf(device_stream[2])

\* the fields of a message that come from data bytes are within 7 bits (14
\* for the two-byte values, 4 for the channel and the quarter-frame nibble)
C34_InRange(m) ==
    /\ "channel" \in DOMAIN m => m.channel \in 0..15
    /\ \A field \in {"note", "velocity", "pressure", "controller", "value", "patch",
                      "song"} :
          field \in DOMAIN m => m[field] \in 0..127
    /\ "time_fragment" \in DOMAIN m => m.time_fragment.value \in 0..15
    /\ \A field \in {"pitch_bend", "position"} :
          field \in DOMAIN m => m[field] \in 0..16383
    /\ "id_and_data" \in DOMAIN m =>
          \A i \in 1..Len(m.id_and_data) : m.id_and_data[i] \in 0..127

\* C34: for every byte queue, every message parse_midi returns has its
\* channel in 0..15, its single-byte data fields in 0..127, its quarter-frame
\* nibble in 0..15, pitch_bend and position in 0..16383 and every SysEx
\* payload byte in 0..127.
C34_SevenBit == midi_result.tag = "Some" => C34_InRange(midi_result.data)

\* C35: for all durations a and b, sub(a, b).add_to(b) equals a and does not
\* underflow; sub(a, b) is Negative(b - a) exactly when b > a and
\* Positive(a - b) otherwise.
C35_DeltaRoundTrip ==
    LET a == invoked[1]
        b == invoked[2]
    IN  /\ relative # None =>
              /\ relative.data.tag = "Negative" <=> b > a
              /\ relative.data.tag = "Positive" <=> b <= a
              /\ relative.data.duration = IF b > a THEN b - a ELSE a - b
        /\ last_call # NoCall => (last_call.how = "returned" /\ epoch = a)

\* sub(2, 7) was Negative(5), and adding it to 7 gave 2
C35_Witness ==
    /\ invoked = <<2, 7>>
    /\ relative = Some([tag |-> "Negative", duration |-> 5])
    /\ last_call.how = "returned"
    /\ epoch = 2

\* C40: for every first-invocation pair (since_start, timestamp) and every
\* later device timestamp that is not below the first one, input_messages
\* returns normally: the signed-delta arithmetic never subtracts a larger
\* duration from a smaller one.
C40_NoTimestampPanic ==
    (\A i \in 1..Len(invoked) : invoked[i] >= invoked[1]) => last_call.how # "underflow"

\* ------------------------------------------------------------------ C36
\* the window that holds the last values of `seen`, oldest first, after
\* zeros: what n callbacks leave in a window that started as zeros
C36_WindowOf(seen) ==
    LET n == Min(Len(seen), ROLLING_AVG_LENGTH)
    IN  Zeros(ROLLING_AVG_LENGTH - n) \o SubSeq(seen, Len(seen) - n + 1, Len(seen))

SeedRingSize == 8

SeedInit ==
    /\ kind = "sink"
    /\ channels \in ChannelCounts
    /\ ring_size = SeedRingSize
    /\ compensation_start_threshold \in Thresholds
    /\ pid_settings \in PidChoices
    /\ \E level \in 0..ring_size : ring = [i \in 1..level |-> i] /\ produced = level
    /\ last_frames = [c \in 1..channels |-> Zeros(FRAME_LOOKBACK)]
    /\ resample_scratch = [c \in 1..channels |-> Zeros(SCRATCH_ROWS)]
    /\ rolling_ring_avg = Zeros(ROLLING_AVG_LENGTH)
    /\ ring_integral = 0
    /\ last_avg = 0
    /\ xruns = 0
    /\ strategy = StrategyNone
    /\ local_buffer = <<>>
    /\ buffer_out = <<>>
    /\ pc = "idle"
    /\ cb = CbIdle
    /\ consumed = 0
    /\ calls = 0
    /\ ops = 0
    /\ entry = NoEntry
    /\ lastOp = "new"
    /\ callsSinceOp = 0
    /\ countedSinceOp = 0
    /\ written = <<>>
    /\ NoMidi

SeedSpec == SeedInit /\ [][SinkNext]_vars

\* the seeding loop of an arming call is over and the window not yet updated
C37_Seeded == kind = "sink" /\ pc = "dispatch" /\ cb.arming

\* xruns after the check at the entry of the call
C37_XrunsAfterEntry ==
    IF Len(entry.ring) = ring_size /\ cb.measure_xruns THEN entry.xruns + 1
    ELSE entry.xruns

\* C37: in the output_samples call that arms resampling, if the ring held
\* at least 3 * channels samples on entry, the seeding pops exactly its 3
\* oldest frames into rows 1..3 of the lookback of their channel, leaves
\* row 0 as it was, writes nothing to the output buffer and counts no xrun;
\* if the ring runs out during seeding the alignment guard pops what is
\* left of the frame and one xrun is counted when measuring; either way the
\* strategy is Resample when seeding is over and when the call returns.
C37_LookbackSeeding ==
    /\ (C37_Seeded /\ Len(entry.ring) >= 3 * channels) =>
          /\ cb.failed = 0 - 1
          /\ \A c \in 1..channels :
                /\ last_frames[c][1] = entry.lookback[c][1]
                /\ \A f \in 1..3 :
                      last_frames[c][f + 1] = entry.ring[(f - 1) * channels + c]
          /\ Len(ring) >= Len(entry.ring) - 3 * channels
          /\ SubSeq(ring, 1, Len(entry.ring) - 3 * channels)
                = SubSeq(entry.ring, 3 * channels + 1, Len(entry.ring))
          /\ buffer_out = entry.buffer
          /\ xruns = C37_XrunsAfterEntry
    /\ (C37_Seeded /\ cb.failed >= 0) =>
          /\ cb.burned = (channels - cb.failed) % channels
          /\ xruns = C37_XrunsAfterEntry + (IF cb.measure_xruns THEN 1 ELSE 0)
          /\ buffer_out = entry.buffer
          /\ \A c \in 1..channels : last_frames[c][1] = entry.lookback[c][1]
    /\ C37_Seeded => strategy = Resample(Micro, 0)
    /\ (kind = "sink" /\ pc = "ret" /\ cb.controlled /\ entry.strategy.tag = "None") =>
          strategy.tag = "Resample"

\* a two-channel sink has seeded three whole frames
C37_Witness ==
    /\ C37_Seeded
    /\ channels = 2
    /\ Len(entry.ring) >= 3 * channels
    /\ last_frames[1][2] = 1
    /\ last_frames[2][FRAME_LOOKBACK] = 3 * channels

\* a sink has seeded three whole frames over a lookback whose row 0 an
\* earlier resampling call had filled
C37_WitnessRowZero ==
    /\ C37_Seeded
    /\ Len(entry.ring) >= 3 * channels
    /\ entry.lookback[1][1] > 0
    /\ last_frames[1][2] > entry.lookback[1][1]

\* the ring ran out in the middle of a frame while seeding, the alignment
\* guard popped the rest of the frame and the xrun was counted
C37_WitnessRanOut ==
    /\ C37_Seeded
    /\ cb.failed = 1
    /\ cb.burned = 1
    /\ cb.measure_xruns
    /\ xruns = entry.xruns + 1

\* ------------------------------------------------------------------ C38
\* C38: whenever the strategy of a StreamSink is Resample, xruns is at
\* least compensation_start_threshold, and whenever the strategy of a
\* StreamSource is Resample, xruns is above compensation_start_threshold;
\* and a callback that was entered in strategy Resample has run the
\* controller step.
C38_ArmedImpliesThreshold ==
    /\ (kind = "sink" /\ strategy.tag = "Resample") =>
          xruns >= compensation_start_threshold
    /\ (kind = "source" /\ strategy.tag = "Resample") =>
          xruns > compensation_start_threshold
    /\ (pc \notin {"idle", "panic", "oob"} /\ entry.strategy.tag = "Resample") =>
          cb.controlled

\* a callback entered in strategy Resample has returned, with a threshold
\* above zero that the xruns counted on the way have reached
C38_Witness ==
    /\ pc = "ret"
    /\ entry.strategy.tag = "Resample"
    /\ strategy.tag = "Resample"
    /\ cb.controlled
    /\ compensation_start_threshold > 0
    /\ lastOp = "new"

\* ------------------------------------------------------------------ C39
\* C39: whenever input_samples has returned, the local queue holds a whole
\* number of frames and fewer than 2 of them, and none after a call whose
\* data path ran in strategy None or Never or in which a push failed.
C39_LocalQueueBounded ==
    (kind = "source" /\ pc = "ret") =>
        /\ Len(local_buffer) % channels = 0
        /\ Len(local_buffer) < 2 * channels
        /\ strategy.tag \in {"None", "Never"} => Len(local_buffer) = 0
        /\ cb.failed >= 0 => Len(local_buffer) = 0
====
